---- MODULE Spec2Model ----
(***************************************************************************)
(* Large-audio transcription orchestrator of hinosatosofttennis/speechtotext. *)
(*                                                                         *)
(* One request at a time is followed through one of the HTTP handlers:     *)
(*   "main"   src/api/speech-to-text.js handler (modes direct, staged,     *)
(*            chunk_processing)                                            *)
(*   "svc"    src/speech-to-text.js handler (service-account version)      *)
(*   "chunk"  src/unnamed/part_001 process-audio-chunk handler             *)
(*   "large"  src/unnamed/part_001 process-large-audio handler             *)
(*   "drive"  src/unnamed/part_000 driveAudioHandler                       *)
(*   "apikey" src/speech-to-text.js handler (API-key version)              *)
(*   "signedUrl" src/api/get-signed-url.js handler                         *)
(* A step of the model is the code between two awaits of a handler; the    *)
(* collaborators (token provider, recognition provider, Drive, object      *)
(* storage) answer nondeterministically.                                   *)
(*                                                                         *)
(* Strings the code builds are sequences of fragments, so that             *)
(* message.includes(...) is decided on what the message holds.             *)
(* Lengths of base64 input are counted in units of 1024 characters, so     *)
(* that the size comparisons stay inside TLC's integers; the comparison    *)
(* (len * 3) / 4 / 1024 / 1024 > limit is exact in IEEE doubles (len * 3   *)
(* is below 2^53 and the divisors are powers of two) and is carried out    *)
(* cross-multiplied.                                                       *)
(***************************************************************************)
EXTENDS Integers, Sequences, FiniteSets, TLC

VARIABLES
    env,          \* process.env: [cred, nodeEnv, storageBucket]
    req,          \* req.body and the endpoint it was posted to
    pc,           \* position of the handler
    calls,        \* collaborator calls and checks made so far, in order
    attempt,      \* loop variable of the poller
    fetches,      \* status fetches issued by the poller
    sleptSec,     \* seconds the poller has slept
    pollOpErr,    \* a status fetch reported done with an error
    pollOutcome,  \* what the poller returned or threw
    donePayload,  \* response of the status fetch that reported done without error, -1 if none
    allTransient, \* every status fetch so far failed transiently (fetch or json() threw)
    provReply,    \* last reply of the recognition provider to a recognize call
    staged,       \* name of the object this request wrote to storage, "" if none
    resps,        \* responses sent on res, in order
    prevTimeout,  \* response a caller got for an earlier staged request that timed out
    speechRequest,\* config of the last request body sent to the recognition provider
    audio,        \* audio of the last request body sent to the recognition provider
    bucket,       \* names of the objects in the storage bucket
    signed,       \* what getSignedUrl was last asked to sign, and when
    inFlight,     \* the chunks of a chunked request whose call is with the provider
    chunkReply,   \* answer of the provider to the call of each chunk of a chunked request
    chunkResults, \* responses to the chunk calls, in the order they completed
    merged,       \* the merged transcript of the chunked request
    observed,     \* what an observer of the poller has seen of its last iteration
    running,      \* which of two invocations of the main handler has the event loop
    other,        \* the local variables of the invocation that is suspended at an await
    peerPc,       \* position of a concurrent Drive request
    metadata,     \* what getMetadata() answered to checkFileDuration
    cleanup,      \* cleanupHandler: its loops, its results and what the deletes did
    peerStaged    \* name of the object the concurrent request staged and still uses, "" if none

vars == <<env, req, pc, calls, attempt, fetches, sleptSec, pollOpErr,
          pollOutcome, donePayload, allTransient, provReply, staged, resps, prevTimeout,
          speechRequest, audio, audio, bucket, signed, inFlight, chunkReply, chunkResults, merged,
          peerPc, peerStaged, running, other, observed, cleanup, metadata>>

----------------------------------------------------------------------------
(* Bounds of the model *)

\* Date.now() returns Epoch .. Epoch + MaxTick
MaxTick == 1

\* number of chunks of a chunked request
NumChunks == 3

\* number of workers of the pool that submits the chunks
WorkerPoolLimit == 2

\* longest list of names a cleanup request carries
MaxNames == 2

\* number of distinct non-empty result payloads the provider may return
NumPayloads == 2

(* Program constants *)

\* pollLongRunningOperation(operationName, accessToken, maxAttempts = 120)
MaxAttemptsLRO == 120
\* pollOperation(operationName, accessToken, maxAttempts = 60)
MaxAttemptsPoll == 60
\* setTimeout(resolve, 5000) after a poll that is not done
PollIntervalSec == 5
\* setTimeout(resolve, 10000) after a caught error
BackoffSec == 10
\* 'Long running operation timeout (10 minutes)'
TimeoutSec == 600
\* if (audioSizeInMB > 1000)
MaxDirectMB == 1000
\* if (audioSizeInMB > 15)
MaxSvcMB == 15
\* if (audioSizeInMB > 50)
MaxChunkMB == 50
\* return estimatedDurationMinutes > 4
LongRunningOverMB == 4

----------------------------------------------------------------------------
(* Messages: error.message as the sequence of its fragments *)

\* throw new Error('Google Cloud<settings> are invalid'), written in Japanese
\* in the source; it is the one message of the program that holds the
\* substring the catch block looks for with includes('Google Cloud<settings>')
GCS_FRAGMENT == "Google Cloud settings (ja) are invalid"

\* messages a collaborator may put in error.message: a plain one, one that
\* holds 'Authentication', one that holds the Japanese substring above
ProviderMsgs ==
    { "Quota exceeded", "Authentication token rejected",
      "Google Cloud settings (ja) missing" }

\* messages thrown by auth.getClient() / getAccessToken()
TokenMsgs == { "invalid_grant", "Authentication backend unavailable" }

\* error.message.includes('Google Cloud<settings>')
IncludesGCS(msg) ==
    \E i \in 1..Len(msg) :
        msg[i] \in {GCS_FRAGMENT, "Google Cloud settings (ja) missing"}

\* error.message.includes('Authentication')
IncludesAuth(msg) ==
    \E i \in 1..Len(msg) :
        msg[i] \in {"Authentication token rejected", "Authentication backend unavailable"}

\* TypeError of reading a property of undefined (config.encoding, config.languageCode)
TypeErrorMsg == <<"Cannot read properties of undefined">>
\* SyntaxError of JSON.parse on a key that does not decode to JSON
SyntaxErrorMsg == <<"Unexpected token in JSON">>
\* TypeError of Buffer.from(undefined, 'base64')
BufferErrorMsg == <<"The first argument must be of type string">>
\* rejection of fetch() on a network failure
FetchFailedMsg == <<"fetch failed">>

----------------------------------------------------------------------------
(* Inputs *)

\* process.env.GOOGLE_SERVICE_ACCOUNT_KEY / GOOGLE_PROJECT_ID
Creds == {"ok", "missingKey", "missingProject", "badKey"}

NodeEnvs == {"development", "production"}

\* process.env.GOOGLE_STORAGE_BUCKET; "" is unset
BucketSettings == {"", "my-audio"}

\* an object without properties
NoFields == [f \in {} |-> ""]

\* config.diarizationConfig; given = FALSE is undefined, a count of 0 is a
\* count the caller did not write
NoDiarization == [given |-> FALSE, minSpeakerCount |-> 0, maxSpeakerCount |-> 0]

\* req.body.config; present = FALSE is undefined, "" and 0 are absent (or
\* falsy) fields.  rateGiven tells a sampleRateHertz the caller wrote, 0
\* included, from an absent one.  extra holds the properties the caller
\* added beyond the named ones.
CfgUndefined ==
    [present |-> FALSE, languageCode |-> "", encoding |-> "", sampleRateHertz |-> 0,
     rateGiven |-> FALSE, diarizationConfig |-> NoDiarization,
     enableDiarization |-> FALSE, extra |-> NoFields]
CfgValid ==
    [present |-> TRUE, languageCode |-> "ja-JP", encoding |-> "MP3", sampleRateHertz |-> 16000,
     rateGiven |-> TRUE, diarizationConfig |-> NoDiarization,
     enableDiarization |-> FALSE, extra |-> NoFields]
Configs ==
    { CfgUndefined, CfgValid,
      [CfgValid EXCEPT !.languageCode = ""],
      [CfgValid EXCEPT !.encoding = ""],
      [CfgValid EXCEPT !.encoding = "PCM24"] }

\* config.sampleRateHertz: absent, or a number the caller wrote
SampleRates ==
    { [given |-> FALSE, hz |-> 0] }
    \cup { [given |-> TRUE, hz |-> h] : h \in {-1, 0, 7000, 8000, 16000, 48000, 48001} }

\* config.diarizationConfig the caller wrote
DiarizationConfigs ==
    { [given |-> TRUE, minSpeakerCount |-> 1, maxSpeakerCount |-> 2],
      [given |-> TRUE, minSpeakerCount |-> -1, maxSpeakerCount |-> 2],
      [given |-> TRUE, minSpeakerCount |-> 3, maxSpeakerCount |-> 2],
      [given |-> TRUE, minSpeakerCount |-> 2, maxSpeakerCount |-> 8],
      [given |-> TRUE, minSpeakerCount |-> 0, maxSpeakerCount |-> 0],
      [given |-> TRUE, minSpeakerCount |-> 7, maxSpeakerCount |-> 0],
      [given |-> TRUE, minSpeakerCount |-> 0, maxSpeakerCount |-> 1] }

\* properties a caller may add to config: one the builders know
\* (audioChannelCount), one no builder names (adaptation), and one that has
\* the name of a field the builders set themselves (model)
ExtraFields ==
    { "audioChannelCount" :> 2, "adaptation" :> "phrases", "model" :> "phone_call" }

\* what the caller asks for besides language, encoding and sample rate
ConfigOptions ==
    { [diarizationConfig |-> NoDiarization, enableDiarization |-> FALSE, extra |-> NoFields],
      [diarizationConfig |-> NoDiarization, enableDiarization |-> TRUE, extra |-> NoFields] }
    \cup { [diarizationConfig |-> d, enableDiarization |-> FALSE, extra |-> NoFields] :
              d \in DiarizationConfigs }
    \cup { [diarizationConfig |-> NoDiarization, enableDiarization |-> FALSE, extra |-> x] :
              x \in ExtraFields }
    \cup { [diarizationConfig |-> [given |-> TRUE, minSpeakerCount |-> 3, maxSpeakerCount |-> 2],
            enableDiarization |-> TRUE, extra |-> "model" :> "phone_call"] }

\* the configs the validators and the request builders are run on
AllConfigs ==
    { [present |-> TRUE, languageCode |-> l, encoding |-> e,
       sampleRateHertz |-> r.hz, rateGiven |-> r.given,
       diarizationConfig |-> o.diarizationConfig,
       enableDiarization |-> o.enableDiarization, extra |-> o.extra] :
          l \in {"", "ja-JP"}, e \in {"", "MP3", "PCM24"},
          r \in SampleRates, o \in ConfigOptions }
    \cup {CfgUndefined}

\* further configs of the staged requests: a diarizationConfig, an added
\* property, no sample rate
StagedConfigs ==
    { [CfgValid EXCEPT !.diarizationConfig = d] :
          d \in { [given |-> TRUE, minSpeakerCount |-> 3, maxSpeakerCount |-> 2],
                  [given |-> TRUE, minSpeakerCount |-> 0, maxSpeakerCount |-> 0] } }
    \cup { [CfgValid EXCEPT !.extra = "model" :> "phone_call"],
           [CfgValid EXCEPT !.sampleRateHertz = 0, !.rateGiven = FALSE] }

\* values of Date.now(), in milliseconds
Epoch == 1000
Times == Epoch..(Epoch + MaxTick)

\* values of Math.random().toString(36).substring(2, 15)
RandomStrings == {"k3x9q7", "p7m2zd"}

\* fileInfo.name of a Drive file and req.body.fileName; "undefined" is what
\* the template literal makes of a missing name
FileNames == {"talk.mp3", "undefined"}

\* the sequences without repetition of at most n elements of set
DistinctLists(set, n) ==
    { l \in UNION { [1..k -> set] : k \in 0..n } :
        \A a, b \in DOMAIN l : a # b => l[a] # l[b] }

\* req.body.objectNames of a cleanup request; the empty list stands for a
\* missing one as well
ObjectNameLists == DistinctLists({"temp/a.mp3", "temp/b.mp3"}, MaxNames)

\* req.body.driveFileIds of a cleanup request
DriveFileIdLists == DistinctLists({"id1", "id2"}, MaxNames)

\* req.body.contentType; "" is undefined
ContentTypes == {"", "audio/mpeg"}

\* length of req.body.audioData in units of 1024 characters; 0 is a missing
\* or empty audioData.  6827 is a 5 MB payload, 20480/20481 straddle 15 MB,
\* 68266/68267 straddle 50 MB, 1365333/1365334 straddle 1000 MB, 1638400 is
\* a 1200 MB payload.
LenKs == {0, 6827, 20480, 20481, 68266, 68267, 1365333, 1365334, 1638400}

\* req.body.audioUri of a caller that staged the audio itself; "" is undefined
CallerUri == "gs://my-audio/uploads/talk.mp3"

\* req.body.objectName of a process-large-audio request
LargeObjectName == "uploads/talk.mp3"

\* req.body.chunkIndex; -1 is undefined
ChunkIndexes == {-1, 0, 1}

\* result payloads of the provider: 0 has no results, 1..NumPayloads have some
Payloads == 0..NumPayloads

\* chunkIndex of the chunks of a chunked request
ChunkOrder == 0..(NumChunks - 1)

\* result.alternatives[0].transcript of the results of payload p: payload p
\* has p results
ResultTranscripts(p) == [k \in 1..p |-> "r" \o ToString(p) \o ToString(k)]

RECURSIVE JoinSpace(_)
\* texts.join(' ')
JoinSpace(texts) ==
    IF texts = <<>> THEN ""
    ELSE IF Len(texts) = 1 THEN texts[1]
    ELSE texts[1] \o " " \o JoinSpace(Tail(texts))

\* data.results.map(result => result.alternatives[0].transcript).join(' '),
\* '' without results
TranscriptText(p) == JoinSpace(ResultTranscripts(p))

\* result.alternatives[0].confidence of the results of payload p, in
\* hundredths: 0.9 for payload 1, 0.8 and 0.6 for payload 2
ResultConfidences(p) == [k \in 1..p |-> 100 - 10 * p * k]

RECURSIVE Sum(_)
\* reduce((sum, x) => sum + x, 0)
Sum(numbers) == IF numbers = <<>> THEN 0 ELSE Head(numbers) + Sum(Tail(numbers))

\* a processAudioChunk that reports the confidence of the last result
processAudioChunkConfidence_Last(p) == IF p > 0 THEN ResultConfidences(p)[p] ELSE 0

\* processAudioChunk: data.results && data.results[0]
\*   ? data.results[0].alternatives[0].confidence : 0
processAudioChunkConfidence(p) == IF p > 0 THEN ResultConfidences(p)[1] ELSE 0

\* process-audio-chunk: the sum of the confidences of the results divided by
\* their number, 0 without results
chunkHandlerConfidence(p) ==
    IF p > 0 THEN Sum(ResultConfidences(p)) \div Len(ResultConfidences(p)) ELSE 0

Requests ==
    [endpoint : {"main"}, mode : {"", "direct", "other"}, config : Configs,
     lenK : LenKs, chunkIndex : {-1}]
    \cup
    [endpoint : {"main"}, mode : {"large_file_cloud_storage"}, config : Configs,
     lenK : {0}, chunkIndex : {-1}, audioUri : {CallerUri}]
    \cup
    \* raw bytes where the storage URI is expected
    [endpoint : {"main"}, mode : {"large_file_cloud_storage"}, config : {CfgValid},
     lenK : {6827}, chunkIndex : {-1}, audioUri : {""}]
    \cup
    [endpoint : {"main"}, mode : {"chunk_processing"}, config : Configs,
     lenK : {0, 6827}, chunkIndex : ChunkIndexes]
    \cup
    [endpoint : {"svc"}, mode : {""}, config : Configs,
     lenK : LenKs, chunkIndex : {-1}]
    \cup
    [endpoint : {"chunk"}, mode : {""}, config : Configs,
     lenK : {0, 6827, 68266, 68267}, chunkIndex : ChunkIndexes]
    \cup
    [endpoint : {"large", "drive"}, mode : {""}, config : {CfgUndefined, CfgValid},
     lenK : {0}, chunkIndex : {-1}]
    \cup
    [endpoint : {"main"}, mode : {""}, config : AllConfigs,
     lenK : {6827}, chunkIndex : {-1}]
    \cup
    [endpoint : {"main"}, mode : {"chunk_processing"}, config : AllConfigs,
     lenK : {6827}, chunkIndex : {0}]
    \cup
    [endpoint : {"main"}, mode : {"large_file_cloud_storage"}, config : StagedConfigs,
     lenK : {0}, chunkIndex : {-1}, audioUri : {CallerUri}]
    \cup
    [endpoint : {"svc"}, mode : {""}, config : AllConfigs,
     lenK : {6827}, chunkIndex : {-1}]
    \cup
    [endpoint : {"chunk"}, mode : {""}, config : AllConfigs,
     lenK : {6827}, chunkIndex : {0}]
    \cup
    [endpoint : {"apikey"}, mode : {""}, config : AllConfigs,
     lenK : {6827}, chunkIndex : {-1}, apiKey : {TRUE}]
    \cup
    [endpoint : {"apikey"}, mode : {""}, config : {CfgValid},
     lenK : {0, 6827}, chunkIndex : {-1}, apiKey : BOOLEAN]
    \cup
    [endpoint : {"signedUrl"}, mode : {""}, config : {CfgUndefined},
     lenK : {0}, chunkIndex : {-1}, fileName : FileNames, contentType : ContentTypes]
    \cup
    [endpoint : {"cleanup"}, mode : {""}, config : {CfgUndefined},
     lenK : {0}, chunkIndex : {-1}, objectNames : ObjectNameLists,
     driveFileIds : DriveFileIdLists]

----------------------------------------------------------------------------
(* Pure functions of the handlers *)

\* validateInput({ audioData, config }).errors
validateInput(lenK, config) ==
    (IF lenK = 0
     THEN <<"audioData is required and must be a base64 string">> ELSE <<>>)
    \o
    (IF ~config.present
     THEN <<"config is required and must be an object">>
     ELSE (IF config.languageCode = ""
           THEN <<"config.languageCode is required">> ELSE <<>>)
          \o
          (IF config.encoding = ""
           THEN <<"config.encoding is required">> ELSE <<>>))

supportedEncodings ==
    {"MP3", "LINEAR16", "FLAC", "MULAW", "AMR", "AMR_WB", "OGG_OPUS",
     "SPEEX_WITH_HEADER_BYTE", "WEBM_OPUS"}

\* validateChunkInput({ audioData, chunkIndex, config }).errors
validateChunkInput(lenK, chunkIndex, config) ==
    (IF lenK = 0
     THEN <<"audioData is required and must be a base64 string">> ELSE <<>>)
    \o
    (IF chunkIndex = -1
     THEN <<"chunkIndex is required and must be a number">> ELSE <<>>)
    \o
    (IF ~config.present
     THEN <<"config is required and must be an object">>
     ELSE (IF config.languageCode = ""
           THEN <<"config.languageCode is required">> ELSE <<>>)
          \o
          (IF config.encoding = ""
           THEN <<"config.encoding is required">> ELSE <<>>)
          \o
          (IF config.encoding # "" /\ config.encoding \notin supportedEncodings
           THEN <<"Unsupported encoding">> ELSE <<>>)
          \o
          (IF config.sampleRateHertz # 0
              /\ (config.sampleRateHertz < 8000 \/ config.sampleRateHertz > 48000)
           THEN <<"sampleRateHertz must be between 8000 and 48000">> ELSE <<>>))

\* audioSizeInMB > limitMB, where audioSizeInMB = (audioData.length * 3) / 4 / 1024 / 1024
\* and audioData.length = lenK * 1024
OverLimit(lenK, limitMB) == 3 * lenK > 4 * 1024 * limitMB

----------------------------------------------------------------------------
(* Object names and signed URLs *)

\* `temp/${Date.now()}-${fileInfo.name}` of copyDriveFileToStorage
driveObjectName(now, name) == "temp/" \o ToString(now) \o "-" \o name

\* `audio/${timestamp}-${randomString}-${fileName}` of get-signed-url
signedObjectName(timestamp, randomString, fileName) ==
    "audio/" \o ToString(timestamp) \o "-" \o randomString \o "-" \o fileName

\* nothing seen of a poller yet.  last: the answer to the last status fetch;
\* waited: the seconds slept after it; sleeps: the waits so far; failed:
\* whether a status fetch has failed (rejected, answered 5xx or reported
\* done with an error)
NotObserved == [last |-> "none", waited |-> 0, sleeps |-> 0, failed |-> FALSE]

\* no second invocation
NoInvocation == [pc |-> "none"]

\* no merged transcript yet
NotMerged ==
    [done |-> FALSE, transcript |-> "", confidence |-> [sum |-> 0, of |-> 0],
     success |-> FALSE, failedChunks |-> <<>>]

\* 15 * 60 * 1000
SignedUrlValidMs == 15 * 60 * 1000

\* process.env.GOOGLE_STORAGE_BUCKET || fallback
StorageBucketOr(fallback) ==
    IF env.storageBucket = "" THEN fallback ELSE env.storageBucket

\* `gs://${bucketName}/${objectName}`
gsUri(bucketName, objectName) == "gs://" \o bucketName \o "/" \o objectName

\* copyDriveFileToStorage: where file.save(..) writes the object
copyDriveFileToStorageUri(objectName) ==
    gsUri(StorageBucketOr("speech-audio-files"), objectName)

\* driveAudioHandler: audioUri of the object copyDriveFileToStorage returned
driveAudioUri(objectName) ==
    gsUri(StorageBucketOr("speech-to-2025text"), objectName)

\* cleanupTempFile: the object file(objectName).delete() is asked to remove
cleanupTempFileUri(objectName) ==
    gsUri(StorageBucketOr("speech-audio-files"), objectName)

\* handler (process-large-audio): audioUri of req.body.objectName
largeHandlerAudioUri(objectName) ==
    gsUri(StorageBucketOr("speech-audio-files"), objectName)

\* speechRequest.audio: the field it has, whether JSON.stringify keeps it (an
\* undefined value is dropped), and the storage URI when it is one
NoAudio == [field |-> "none", defined |-> FALSE, uri |-> ""]

\* audio: { content: audioData }
inlineAudio(lenK) == [field |-> "content", defined |-> lenK > 0, uri |-> ""]

\* audio: { uri: audioUri }
uriAudio(audioUri) == [field |-> "uri", defined |-> audioUri # "", uri |-> audioUri]

\* the options of bucket.file(objectName).getSignedUrl({version, action,
\* expires, contentType}) and the time of the call; contentType "" is
\* undefined, a URL that is not bound to a content type
NoSigned == [objectName |-> "", action |-> "", expires |-> 0, contentType |-> "", at |-> 0]

----------------------------------------------------------------------------
(* Recognition payloads: the config object of the request body sent to the *)
(* provider, as the function from its property names to their values        *)

\* a || b on strings and on numbers
OrStr(a, b) == IF a = "" THEN b ELSE a
OrNum(a, b) == IF a = 0 THEN b ELSE a

\* a property whose value may be undefined: JSON.stringify leaves it out
StrField(name, v) == IF v = "" THEN NoFields ELSE name :> v

\* x[name] of an object of numbers, 0 when the property is absent
NumProp(x, name) == IF name \in DOMAIN x THEN x[name] ELSE 0

\* config.diarizationConfig as the caller wrote it
RawDiarization(d) ==
    [enableSpeakerDiarization |-> FALSE,
     minSpeakerCount |-> d.minSpeakerCount, maxSpeakerCount |-> d.maxSpeakerCount]

\* the own properties of req.body.config, what ...config spreads
Props(config) ==
    StrField("languageCode", config.languageCode)
    @@ StrField("encoding", config.encoding)
    @@ (IF config.rateGiven THEN "sampleRateHertz" :> config.sampleRateHertz ELSE NoFields)
    @@ (IF config.diarizationConfig.given
        THEN "diarizationConfig" :> RawDiarization(config.diarizationConfig)
        ELSE NoFields)
    @@ (IF config.enableDiarization THEN "enableDiarization" :> TRUE ELSE NoFields)
    @@ config.extra

\* { enableSpeakerDiarization: true, minSpeakerCount: min || 2, maxSpeakerCount: max || 6 }
DiarizationOr(min, max) ==
    [enableSpeakerDiarization |-> TRUE,
     minSpeakerCount |-> OrNum(min, 2), maxSpeakerCount |-> OrNum(max, 6)]

\* if (config.diarizationConfig) requestBody.config.diarizationConfig = {..}
WithDiarizationConfig(config, payload) ==
    IF config.diarizationConfig.given
    THEN ("diarizationConfig" :> DiarizationOr(config.diarizationConfig.minSpeakerCount,
                                               config.diarizationConfig.maxSpeakerCount))
         @@ payload
    ELSE payload

\* buildSpeechRequest(audioData, config).config of src/api/speech-to-text.js
\* and of src/speech-to-text.js: the fixed fields, then ...config over them,
\* then the diarization config
buildSpeechRequest(config) ==
    WithDiarizationConfig(config,
        Props(config)
        @@ StrField("encoding", config.encoding)
        @@ ("sampleRateHertz" :> OrNum(config.sampleRateHertz, 16000))
        @@ StrField("languageCode", config.languageCode)
        @@ ("model" :> "latest_long")
        @@ ("useEnhanced" :> TRUE)
        @@ ("enableAutomaticPunctuation" :> TRUE)
        @@ ("enableWordTimeOffsets" :> TRUE)
        @@ ("maxAlternatives" :> 1))

\* requestBody.config of handler (API-key version): the fixed fields with
\* ...config over them; the diarizationConfig assigned afterwards is the one
\* the spread has put there
apiKeySpeechRequest(config) ==
    Props(config)
    @@ ("encoding" :> OrStr(config.encoding, "WEBM_OPUS"))
    @@ ("sampleRateHertz" :> OrNum(config.sampleRateHertz, 16000))
    @@ ("languageCode" :> OrStr(config.languageCode, "ja-JP"))
    @@ ("model" :> "latest_long")
    @@ ("useEnhanced" :> TRUE)
    @@ ("enableAutomaticPunctuation" :> TRUE)
    @@ ("enableWordTimeOffsets" :> TRUE)

\* speechRequest.config of processLargeFileViaCloudStorage
largeFileSpeechRequest(config) ==
    WithDiarizationConfig(config,
        ("encoding" :> OrStr(config.encoding, "MP3"))
        @@ ("sampleRateHertz" :> OrNum(config.sampleRateHertz, 16000))
        @@ ("languageCode" :> OrStr(config.languageCode, "ja-JP"))
        @@ ("model" :> "latest_long")
        @@ ("useEnhanced" :> TRUE)
        @@ ("enableAutomaticPunctuation" :> TRUE)
        @@ ("enableWordTimeOffsets" :> TRUE)
        @@ ("maxAlternatives" :> 1))

\* speechRequest.config of processAudioChunk
processAudioChunkSpeechRequest(config) ==
    ("encoding" :> OrStr(config.encoding, "MP3"))
    @@ ("sampleRateHertz" :> OrNum(config.sampleRateHertz, 16000))
    @@ ("languageCode" :> OrStr(config.languageCode, "ja-JP"))
    @@ ("model" :> "latest_short")
    @@ ("enableAutomaticPunctuation" :> TRUE)

\* the properties buildChunkSpeechRequest copies from config when they are truthy
ChunkPassThrough == {"audioChannelCount", "enableSeparateRecognitionPerChannel"}

\* buildChunkSpeechRequest(audioData, config).config
buildChunkSpeechRequest(config) ==
    (IF config.enableDiarization
     THEN "diarizationConfig" :> [enableSpeakerDiarization |-> TRUE,
                                  minSpeakerCount |-> 1, maxSpeakerCount |-> 2]
     ELSE NoFields)
    @@ [f \in DOMAIN config.extra \cap ChunkPassThrough |-> config.extra[f]]
    @@ StrField("encoding", config.encoding)
    @@ ("sampleRateHertz" :> OrNum(config.sampleRateHertz, 16000))
    @@ StrField("languageCode", config.languageCode)
    @@ ("model" :> "latest_short")
    @@ ("useEnhanced" :> TRUE)
    @@ ("enableAutomaticPunctuation" :> TRUE)
    @@ ("enableWordTimeOffsets" :> TRUE)
    @@ ("enableWordConfidence" :> TRUE)
    @@ ("maxAlternatives" :> 1)
    @@ ("profanityFilter" :> FALSE)

\* speechRequest.config of handler (process-large-audio)
largeHandlerSpeechRequest(config) ==
    (IF config.enableDiarization
     THEN "diarizationConfig" :> DiarizationOr(NumProp(config.extra, "minSpeakers"),
                                               NumProp(config.extra, "maxSpeakers"))
     ELSE NoFields)
    @@ ("encoding" :> "MP3")
    @@ ("sampleRateHertz" :> 16000)
    @@ ("languageCode" :> OrStr(config.languageCode, "ja-JP"))
    @@ ("model" :> "latest_long")
    @@ ("useEnhanced" :> TRUE)
    @@ ("enableAutomaticPunctuation" :> TRUE)
    @@ ("enableWordTimeOffsets" :> TRUE)

\* speechRequest.config of driveAudioHandler
driveSpeechRequest(config) ==
    (IF config.enableDiarization
     THEN "diarizationConfig" :> [enableSpeakerDiarization |-> TRUE,
                                  minSpeakerCount |-> 2, maxSpeakerCount |-> 6]
     ELSE NoFields)
    @@ ("encoding" :> "MP3")
    @@ ("sampleRateHertz" :> 16000)
    @@ ("languageCode" :> OrStr(config.languageCode, "ja-JP"))
    @@ ("model" :> "latest_long")
    @@ ("useEnhanced" :> TRUE)
    @@ ("enableAutomaticPunctuation" :> TRUE)

----------------------------------------------------------------------------
(* Responses: res.status(status).json(body), one record shape for all *)

\* results: -1 absent, 0 the empty list, p > 0 the payload p
\* chunkIndex: -2 no such field, -1 undefined, -3 null, otherwise the index
\* transcript: -1 absent, 0 the empty string, p > 0 the transcripts of payload p
\* confidence: -1 absent, otherwise in hundredths
\* signedUrl: the URL as what it was signed for; warnings: no response of the
\* program has the property
\* results of cleanupHandler
NoReport == [deletedCloudStorage |-> <<>>, deletedDrive |-> <<>>, errors |-> <<>>]

\* cleanupHandler before its loops: i and j are the names and ids the loops
\* have been through, gone the objects and files whose delete succeeded
NoCleanup == [i |-> 0, j |-> 0, results |-> NoReport, gone |-> {}]

Body ==
    [status |-> 0, success |-> "absent", error |-> <<>>, message |-> <<>>,
     code |-> 0, details |-> <<>>, maxSize |-> "", suggestion |-> "",
     results |-> -1, processingMode |-> "", operationType |-> "",
     requestId |-> FALSE, chunkIndex |-> -2, transcript |-> -1, confidence |-> -1,
     signedUrl |-> NoSigned, objectName |-> "", warnings |-> <<>>,
     report |-> NoReport]

\* what a caller can tell a response by: generateRequestId() is random
Visible(r) == [r EXCEPT !.requestId = FALSE]

\* catch block of handler (src/api/speech-to-text.js, src/speech-to-text.js)
handlerCatch(msg, nodeEnv) ==
    IF IncludesGCS(msg)
    THEN [Body EXCEPT !.status = 500,
                      !.error = <<"Server configuration error">>,
                      !.message = <<"Google Cloud settings are invalid">>]
    ELSE IF IncludesAuth(msg)
    THEN [Body EXCEPT !.status = 401,
                      !.error = <<"Authentication failed">>,
                      !.message = <<"Failed to authenticate with Google Cloud">>]
    ELSE [Body EXCEPT !.status = 500,
                      !.error = <<"Internal server error">>,
                      !.message = IF nodeEnv = "development" THEN msg
                                  ELSE <<"An unexpected error occurred">>,
                      !.requestId = TRUE]

\* catch block of handler (process-audio-chunk)
chunkHandlerCatch(msg, nodeEnv, chunkIndex) ==
    IF IncludesGCS(msg)
    THEN [Body EXCEPT !.status = 500, !.success = "false",
                      !.error = <<"Server configuration error">>,
                      !.message = <<"Google Cloud settings are invalid">>,
                      !.chunkIndex = chunkIndex]
    ELSE IF IncludesAuth(msg)
    THEN [Body EXCEPT !.status = 401, !.success = "false",
                      !.error = <<"Authentication failed">>,
                      !.message = <<"Failed to authenticate with Google Cloud">>,
                      !.chunkIndex = chunkIndex]
    ELSE [Body EXCEPT !.status = 500, !.success = "false",
                      !.error = <<"Internal server error">>,
                      !.message = IF nodeEnv = "development" THEN msg
                                  ELSE <<"Chunk processing failed">>,
                      \* req.body?.chunkIndex || null
                      !.chunkIndex = IF chunkIndex \in {-1, 0} THEN -3 ELSE chunkIndex,
                      !.requestId = TRUE]

\* catch block of handler (process-large-audio) and of driveAudioHandler
plainCatch(msg) == [Body EXCEPT !.status = 500, !.error = msg]

\* a catch block of processAudioChunk that leaves the chunkIndex out
processAudioChunkCatch_NoIndex(msg, chunkIndex) ==
    [Body EXCEPT !.status = 500, !.success = "false", !.error = msg,
                 !.processingMode = "chunk"]

\* catch block of processAudioChunk
processAudioChunkCatch(msg, chunkIndex) ==
    [Body EXCEPT !.status = 500, !.success = "false", !.error = msg,
                 !.chunkIndex = chunkIndex, !.processingMode = "chunk"]

\* `${data.error?.message}` in a template literal
TemplateMsg(m) == IF m = "" THEN "undefined" ELSE m

\* speechData.error?.message || 'Unknown error'
MessageOr(m) == IF m = "" THEN <<"Unknown error">> ELSE <<m>>

----------------------------------------------------------------------------
(* Collaborator replies *)

NoReply == [kind |-> "none", status |-> 0, code |-> 0, msg |-> "", payload |-> -1]

\* a non-2xx answer of the recognition provider: { error: { code, message } },
\* the last one an error body without an error object
ProviderErrors ==
    { [kind |-> "error", status |-> 429, code |-> 429, msg |-> "Quota exceeded", payload |-> -1],
      [kind |-> "error", status |-> 401, code |-> 401, msg |-> "Authentication token rejected", payload |-> -1],
      [kind |-> "error", status |-> 400, code |-> 400, msg |-> "Google Cloud settings (ja) missing", payload |-> -1],
      [kind |-> "error", status |-> 503, code |-> 0, msg |-> "", payload |-> -1] }

\* fetch() rejects
NetFail == [kind |-> "netFail", status |-> 0, code |-> 0, msg |-> "", payload |-> -1]

\* answers to speech:recognize
SyncReplies ==
    { [kind |-> "ok", status |-> 200, code |-> 0, msg |-> "", payload |-> p] : p \in Payloads }
    \cup ProviderErrors \cup {NetFail}

\* answers to speech:longrunningrecognize
AsyncReplies ==
    { [kind |-> "ok", status |-> 200, code |-> 0, msg |-> "", payload |-> -1] }
    \cup ProviderErrors \cup {NetFail}

\* answers to GET operations/<name>
PollReplies ==
    { [kind |-> "running", payload |-> -1, msg |-> ""],
      \* a 5xx answer with a JSON error body: fetch resolves, data.done is undefined
      [kind |-> "status5xx", payload |-> -1, msg |-> ""],
      [kind |-> "netFail", payload |-> -1, msg |-> ""] }
    \cup { [kind |-> "doneOk", payload |-> p, msg |-> ""] : p \in Payloads }
    \cup { [kind |-> "doneErr", payload |-> -1, msg |-> m] : m \in ProviderMsgs }

NoOutcome == [kind |-> "none", payload |-> -1, msg |-> <<>>]

\* metadata.size of the staged file, in MB
FileSizesMB == {1, 4, 5}

\* getMetadata() has not been called; afterwards read is "ok" or "failed"
NoMetadata == [read |-> "no", sizeMB |-> 0]

----------------------------------------------------------------------------
(* State *)

Init ==
    /\ env \in [cred : Creds, nodeEnv : NodeEnvs, storageBucket : BucketSettings]
    /\ req \in Requests
    \* GOOGLE_STORAGE_BUCKET is read by process-drive-audio and
    \* process-large-audio
    /\ req.endpoint \notin {"drive", "large"} => env.storageBucket = ""
    /\ pc = "start"
    /\ calls = <<>>
    /\ attempt = 0
    /\ fetches = 0
    /\ sleptSec = 0
    /\ pollOpErr = FALSE
    /\ pollOutcome = NoOutcome
    /\ donePayload = -1
    /\ allTransient = TRUE
    /\ provReply = NoReply
    /\ staged = ""
    /\ resps = <<>>
    /\ prevTimeout = Body
    /\ speechRequest = NoFields
    /\ audio = NoAudio
    /\ bucket = {}
    /\ signed = NoSigned
    /\ inFlight = {}
    /\ chunkReply = [i \in ChunkOrder |-> NoReply]
    /\ chunkResults = <<>>
    /\ merged = NotMerged
    /\ observed = NotObserved
    /\ running = "A"
    /\ other = NoInvocation
    /\ peerPc = "d_save"
    /\ peerStaged = ""
    /\ cleanup = NoCleanup
    /\ metadata = NoMetadata

\* the state of a chunked request
chunkVars == <<inFlight, chunkReply, chunkResults, merged>>
\* the state of a second invocation of the main handler
isoVars == <<running, other>>
\* the state of the storage collaborators and of a concurrent request
peerVars == <<signed, chunkVars, peerPc, peerStaged, isoVars, observed, cleanup, metadata>>
auxVars == <<bucket, peerVars>>

pollVars == <<attempt, fetches, sleptSec, pollOpErr, pollOutcome, donePayload, allTransient>>

\* res.status(..).json(body) as the last thing the handler does
Respond(r) ==
    /\ resps' = Append(resps, r)
    /\ pc' = "done"

Count(seq, x) == Cardinality({ i \in 1..Len(seq) : seq[i] = x })

----------------------------------------------------------------------------
(* handler of src/api/speech-to-text.js ("main") and of the service-account *)
(* version in src/speech-to-text.js ("svc")                                 *)

\* The chunk branch is missing: chunk_processing falls through to the direct
\* path.  (mutant of route)
route_NoChunkBranch(mode) ==
    IF mode = "large_file_cloud_storage" THEN "staged" ELSE "direct"

\* if (processingMode === 'large_file_cloud_storage') .. else if
\* (processingMode === 'chunk_processing') .. ; otherwise the direct path
route(mode) ==
    IF mode = "large_file_cloud_storage" THEN "staged"
    ELSE IF mode = "chunk_processing" THEN "chunk"
    ELSE "direct"

\* the service-account version has no processing modes
PathOf(r) == IF r.endpoint = "main" THEN route(r.mode) ELSE "direct"

\* The limit of the older handler is left in place.  (mutant of oversizeDirect)
oversizeDirect_OldLimit(lenK) == OverLimit(lenK, MaxSvcMB)

\* audioSizeInMB > 1000 (src/api/speech-to-text.js)
oversizeDirect(lenK) == OverLimit(lenK, MaxDirectMB)

\* audioSizeInMB > 15 (src/speech-to-text.js)
oversizeSvc(lenK) == OverLimit(lenK, MaxSvcMB)

\* the 413 response of the direct path
oversizeResponse(endpoint) ==
    IF endpoint = "main"
    THEN [Body EXCEPT !.status = 413,
                      !.error = <<"Audio file too large for direct processing">>,
                      !.maxSize = "1000MB",
                      !.suggestion = "Use large file processing mode"]
    ELSE [Body EXCEPT !.status = 413,
                      !.error = <<"Audio file too large">>,
                      !.maxSize = "15MB"]

\* try { env check; JSON.parse(key); new GoogleAuth(..) up to the first await
handler_Start ==
    /\ pc = "start"
    /\ req.endpoint \in {"main", "svc"}
    /\ IF env.cred \in {"missingKey", "missingProject"}
       THEN Respond(handlerCatch(<<GCS_FRAGMENT>>, env.nodeEnv))
       ELSE IF env.cred = "badKey"
       THEN Respond(handlerCatch(SyntaxErrorMsg, env.nodeEnv))
       ELSE pc' = "token" /\ UNCHANGED resps
    /\ UNCHANGED <<env, req, calls, pollVars, provReply, staged, prevTimeout, speechRequest, audio, auxVars>>

\* the code that runs between the token and the next await on the direct path:
\* validateInput, the size check, buildSpeechRequest
directChecks(done) ==
    LET errs == validateInput(req.lenK, req.config)
        over == IF req.endpoint = "main" THEN oversizeDirect(req.lenK)
                ELSE oversizeSvc(req.lenK)
    IN  IF errs # <<>>
        THEN /\ calls' = done \o <<"validate">>
             /\ Respond([Body EXCEPT !.status = 400, !.error = <<"Invalid input">>,
                                     !.details = errs])
        ELSE IF over
        THEN /\ calls' = done \o <<"validate", "sizeCheck">>
             /\ Respond(oversizeResponse(req.endpoint))
        ELSE /\ calls' = done \o <<"validate", "sizeCheck">>
             /\ pc' = "recognize"
             /\ UNCHANGED resps

\* await auth.getClient(); await authClient.getAccessToken(); then the mode
\* switch and the code of the chosen path up to its first await
handler_Token ==
    /\ pc = "token"
    /\ req.endpoint \in {"main", "svc"}
    /\ \/ \E m \in TokenMsgs :
            /\ calls' = Append(calls, "token")
            /\ Respond(handlerCatch(<<m>>, env.nodeEnv))
       \/ /\ PathOf(req) = "staged"
          /\ calls' = Append(calls, "token")
          /\ pc' = "lf_token"
          /\ UNCHANGED resps
       \/ /\ PathOf(req) = "chunk"
          /\ calls' = Append(calls, "token")
          /\ IF ~req.config.present
             THEN Respond(processAudioChunkCatch(TypeErrorMsg, req.chunkIndex))
             ELSE pc' = "pac_recognize" /\ UNCHANGED resps
       \/ /\ PathOf(req) = "direct"
          /\ directChecks(Append(calls, "token"))
    /\ UNCHANGED <<env, req, pollVars, provReply, staged, prevTimeout, speechRequest, audio, auxVars>>

\* await fetch(speech:recognize); await speechResponse.json(); the responses
handler_Recognize ==
    /\ pc = "recognize"
    /\ req.endpoint \in {"main", "svc"}
    /\ calls' = Append(calls, "recognize")
    /\ speechRequest' = buildSpeechRequest(req.config)
    /\ audio' = inlineAudio(req.lenK)
    /\ \E r \in SyncReplies :
        /\ provReply' = r
        /\ IF r.kind = "netFail"
           THEN Respond(handlerCatch(FetchFailedMsg, env.nodeEnv))
           ELSE IF r.kind = "error"
           THEN Respond([Body EXCEPT !.status = r.status,
                                     !.error = <<"Speech API Error">>,
                                     !.message = MessageOr(r.msg),
                                     !.code = r.code])
           ELSE IF r.payload = 0
           THEN Respond([Body EXCEPT !.status = 200, !.success = "true",
                                     !.results = 0,
                                     !.message = <<"No speech detected in audio">>,
                                     !.processingMode =
                                         IF req.endpoint = "main" THEN "direct" ELSE ""])
           ELSE Respond([Body EXCEPT !.status = 200, !.success = "true",
                                     !.results = r.payload,
                                     !.requestId = TRUE,
                                     !.processingMode =
                                         IF req.endpoint = "main" THEN "direct" ELSE ""])
    /\ UNCHANGED <<env, req, pollVars, staged, prevTimeout, auxVars>>

\* throw new Error(`Large file processing failed: ${error.message}`), caught
\* by the catch block of handler
largeFileThrow(msg) ==
    Respond(handlerCatch(<<"Large file processing failed: ">> \o msg, env.nodeEnv))

\* processLargeFileViaCloudStorage: the second token fetch, then the request
\* is built from config
processLargeFileViaCloudStorage_Token ==
    /\ pc = "lf_token"
    /\ calls' = Append(calls, "token")
    /\ \/ \E m \in TokenMsgs : largeFileThrow(<<m>>)
       \/ IF ~req.config.present
          THEN largeFileThrow(TypeErrorMsg)
          ELSE pc' = "lf_async" /\ UNCHANGED resps
    /\ UNCHANGED <<env, req, pollVars, provReply, staged, prevTimeout, speechRequest, audio, auxVars>>

\* processLargeFileViaCloudStorage: fetch(speech:longrunningrecognize)
processLargeFileViaCloudStorage_Start ==
    /\ pc = "lf_async"
    /\ calls' = Append(calls, "longrunningrecognize")
    /\ speechRequest' = largeFileSpeechRequest(req.config)
    /\ audio' = uriAudio(req.audioUri)
    /\ \E r \in AsyncReplies :
        /\ provReply' = r
        /\ IF r.kind = "netFail"
           THEN largeFileThrow(FetchFailedMsg)
           ELSE IF r.kind = "error"
           THEN largeFileThrow(<<"Speech API Error: ", TemplateMsg(r.msg)>>)
           ELSE pc' = "poll" /\ UNCHANGED resps
    /\ UNCHANGED <<env, req, pollVars, staged, prevTimeout, auxVars>>

----------------------------------------------------------------------------
(* The pollers *)

\* The catch block swallows the last failure too: the loop ends and the
\* poller reports a timeout.  (mutant of pollCatch)
pollCatch_Swallow(maxAttempts, msg) ==
    /\ sleptSec' = sleptSec + BackoffSec
    /\ attempt' = attempt + 1
    /\ IF attempt = maxAttempts - 1
       THEN /\ pollOutcome' = [kind |-> "timeout", payload |-> -1, msg |-> <<"timeout">>]
            /\ pc' = "polled"
       ELSE /\ pc' = "poll"
            /\ UNCHANGED pollOutcome

\* catch (error) { if (attempt === maxAttempts - 1) throw error;
\*                 await sleep(10000) }
pollCatch(maxAttempts, msg) ==
    IF attempt = maxAttempts - 1
    THEN /\ pollOutcome' = [kind |-> "err", payload |-> -1, msg |-> msg]
         /\ pc' = "polled"
         /\ UNCHANGED <<attempt, sleptSec>>
    ELSE /\ sleptSec' = sleptSec + BackoffSec
         /\ attempt' = attempt + 1
         /\ pc' = "poll"
         /\ UNCHANGED pollOutcome

\* an iteration that sleeps the poll interval before it looks at data.done
pollStep_SleepFirst(maxAttempts, timeoutMsg, r) ==
    /\ pc = "poll"
    /\ attempt < maxAttempts
    /\ fetches' = fetches + 1
    /\ allTransient' = (allTransient /\ r.kind = "netFail")
    /\ IF r.kind = "doneOk"
       THEN /\ pollOutcome' = [kind |-> "ok", payload |-> r.payload, msg |-> <<>>]
            /\ donePayload' = r.payload
            /\ pc' = "polled"
            /\ sleptSec' = sleptSec + PollIntervalSec
            /\ UNCHANGED <<attempt, pollOpErr>>
       ELSE IF r.kind \in {"running", "status5xx"}
       THEN /\ sleptSec' = sleptSec + PollIntervalSec
            /\ attempt' = attempt + 1
            /\ UNCHANGED <<pollOpErr, donePayload>>
            /\ IF attempt + 1 < maxAttempts
               THEN pc' = "poll" /\ UNCHANGED pollOutcome
               ELSE /\ pollOutcome' = [kind |-> "timeout", payload |-> -1,
                                       msg |-> timeoutMsg]
                    /\ pc' = "polled"
       ELSE /\ pollOpErr' = (pollOpErr \/ r.kind = "doneErr")
            /\ UNCHANGED donePayload
            /\ pollCatch(maxAttempts,
                         IF r.kind = "doneErr" THEN <<"Operation error: ", r.msg>>
                         ELSE FetchFailedMsg)

\* One iteration of
\*   for (let attempt = 0; attempt < maxAttempts; attempt++) {
\*     try { fetch status; if (data.done) { if (data.error) throw ..; return data.response; }
\*           sleep 5 s }
\*     catch (error) { if (attempt === maxAttempts - 1) throw error; sleep 10 s } }
\*   throw new Error(timeoutMsg)
\* the body of pollLongRunningOperation and of pollOperation.  The throw of
\* 'Operation error' is inside the try and is caught by the catch of the loop.
pollStep(maxAttempts, timeoutMsg, r) ==
    /\ pc = "poll"
    /\ attempt < maxAttempts
    /\ fetches' = fetches + 1
    /\ allTransient' = (allTransient /\ r.kind = "netFail")
    /\ IF r.kind = "doneOk"
       THEN /\ pollOutcome' = [kind |-> "ok", payload |-> r.payload, msg |-> <<>>]
            /\ donePayload' = r.payload
            /\ pc' = "polled"
            /\ UNCHANGED <<attempt, sleptSec, pollOpErr>>
       ELSE IF r.kind \in {"running", "status5xx"}
       THEN /\ sleptSec' = sleptSec + PollIntervalSec
            /\ attempt' = attempt + 1
            /\ UNCHANGED <<pollOpErr, donePayload>>
            /\ IF attempt + 1 < maxAttempts
               THEN pc' = "poll" /\ UNCHANGED pollOutcome
               ELSE /\ pollOutcome' = [kind |-> "timeout", payload |-> -1,
                                       msg |-> timeoutMsg]
                    /\ pc' = "polled"
       ELSE /\ pollOpErr' = (pollOpErr \/ r.kind = "doneErr")
            /\ UNCHANGED donePayload
            /\ pollCatch(maxAttempts,
                         IF r.kind = "doneErr" THEN <<"Operation error: ", r.msg>>
                         ELSE FetchFailedMsg)

\* the iteration, whatever the provider answers
pollLoop(maxAttempts, timeoutMsg) == \E r \in PollReplies : pollStep(maxAttempts, timeoutMsg, r)

\* what the observer sees of the iteration answered r
Observe(r) ==
    observed' = [last |-> r.kind,
                 waited |-> sleptSec' - sleptSec,
                 sleeps |-> observed.sleeps + (IF sleptSec' > sleptSec THEN 1 ELSE 0),
                 failed |-> observed.failed \/ r.kind \notin {"running", "doneOk"}]

\* The loop test is attempt <= maxAttempts: one poll too many.
\* (mutant of pollLongRunningOperation)
pollLongRunningOperation_OffByOne ==
    /\ req.endpoint = "main"
    /\ pollLoop(MaxAttemptsLRO + 1, <<"Long running operation timeout (10 minutes)">>)
    /\ UNCHANGED <<env, req, calls, provReply, staged, resps, prevTimeout, speechRequest, audio, auxVars>>

\* pollLongRunningOperation(operationName, accessToken, maxAttempts = 120)
pollLongRunningOperation ==
    /\ req.endpoint = "main"
    /\ pollLoop(MaxAttemptsLRO, <<"Long running operation timeout (10 minutes)">>)
    /\ UNCHANGED <<env, req, calls, provReply, staged, resps, prevTimeout, speechRequest, audio, auxVars>>

\* pollOperation(operationName, accessToken, maxAttempts = 60)
pollOperation ==
    /\ req.endpoint \in {"large", "drive"}
    /\ pollLoop(MaxAttemptsPoll, <<"Operation timeout">>)
    /\ UNCHANGED <<env, req, calls, provReply, staged, resps, prevTimeout, speechRequest, audio, auxVars>>

\* pollLongRunningOperation, observed
pollLongRunningOperation_Observed ==
    /\ req.endpoint = "main"
    /\ \E r \in PollReplies :
          /\ pollStep(MaxAttemptsLRO, <<"Long running operation timeout (10 minutes)">>, r)
          /\ Observe(r)
    /\ UNCHANGED <<env, req, calls, provReply, staged, resps, prevTimeout, speechRequest, audio,
                   bucket, signed, chunkVars, peerPc, peerStaged, isoVars, cleanup, metadata>>

\* pollOperation, observed
pollOperation_Observed ==
    /\ req.endpoint \in {"large", "drive"}
    /\ \E r \in PollReplies :
          /\ pollStep(MaxAttemptsPoll, <<"Operation timeout">>, r)
          /\ Observe(r)
    /\ UNCHANGED <<env, req, calls, provReply, staged, resps, prevTimeout, speechRequest, audio,
                   bucket, signed, chunkVars, peerPc, peerStaged, isoVars, cleanup, metadata>>

\* the attempt bound of the poller a request uses
MaxAttemptsOf(endpoint) == IF endpoint = "main" THEN MaxAttemptsLRO ELSE MaxAttemptsPoll

\* processLargeFileViaCloudStorage after the poller: logUsage and the 200
\* response, or the error of the poller rethrown
processLargeFileViaCloudStorage_Finish ==
    /\ pc = "polled"
    /\ req.endpoint = "main"
    /\ IF pollOutcome.kind = "ok"
       THEN Respond([Body EXCEPT !.status = 200, !.success = "true",
                                 !.results = pollOutcome.payload,
                                 !.processingMode = "cloud_storage",
                                 !.requestId = TRUE])
       ELSE largeFileThrow(pollOutcome.msg)
    /\ UNCHANGED <<env, req, calls, pollVars, provReply, staged, prevTimeout, speechRequest, audio, auxVars>>

\* a processAudioChunk whose success response leaves the chunkIndex out
processAudioChunkReply_NoIndex(r, chunkIndex) ==
    IF r.kind = "netFail"
    THEN processAudioChunkCatch(FetchFailedMsg, chunkIndex)
    ELSE IF r.kind = "error"
    THEN processAudioChunkCatch(<<"Speech API Error: ", TemplateMsg(r.msg)>>, chunkIndex)
    ELSE [Body EXCEPT !.status = 200, !.success = "true",
                      !.transcript = r.payload,
                      !.processingMode = "chunk",
                      !.confidence = processAudioChunkConfidence(r.payload)]

\* processAudioChunk: what it answers for chunk chunkIndex when the provider
\* answered r
processAudioChunkReply(r, chunkIndex) ==
    IF r.kind = "netFail"
    THEN processAudioChunkCatch(FetchFailedMsg, chunkIndex)
    ELSE IF r.kind = "error"
    THEN processAudioChunkCatch(<<"Speech API Error: ", TemplateMsg(r.msg)>>, chunkIndex)
    ELSE [Body EXCEPT !.status = 200, !.success = "true",
                      !.transcript = r.payload,
                      !.chunkIndex = chunkIndex,
                      !.processingMode = "chunk",
                      !.confidence = processAudioChunkConfidence(r.payload)]

\* processAudioChunk: fetch(speech:recognize) and the response
processAudioChunk_Recognize ==
    /\ pc = "pac_recognize"
    /\ calls' = Append(calls, "recognize")
    /\ speechRequest' = processAudioChunkSpeechRequest(req.config)
    /\ audio' = inlineAudio(req.lenK)
    /\ \E r \in SyncReplies :
        /\ provReply' = r
        /\ Respond(processAudioChunkReply(r, req.chunkIndex))
    /\ UNCHANGED <<env, req, pollVars, staged, prevTimeout, auxVars>>

----------------------------------------------------------------------------
(* handler of process-audio-chunk ("chunk") *)

\* audioSizeInMB > 50
oversizeChunk(lenK) == OverLimit(lenK, MaxChunkMB)

\* process-audio-chunk: what it answers for chunk chunkIndex when the
\* provider answered r
chunkHandlerReply(r, nodeEnv, chunkIndex) ==
    IF r.kind = "netFail"
    THEN chunkHandlerCatch(FetchFailedMsg, nodeEnv, chunkIndex)
    ELSE IF r.kind = "error"
    THEN [Body EXCEPT !.status = r.status, !.success = "false",
                      !.error = <<"Speech API Error">>,
                      !.message = MessageOr(r.msg),
                      !.code = r.code,
                      !.chunkIndex = chunkIndex]
    ELSE [Body EXCEPT !.status = 200, !.success = "true",
                      !.results = r.payload,
                      !.transcript = r.payload,
                      !.confidence = chunkHandlerConfidence(r.payload),
                      !.chunkIndex = chunkIndex,
                      !.processingMode = "chunk",
                      !.requestId = TRUE]

\* try { env check; validateChunkInput; size check; JSON.parse(key) up to the
\* first await
chunkHandler_Start ==
    /\ pc = "start"
    /\ req.endpoint = "chunk"
    /\ LET errs == validateChunkInput(req.lenK, req.chunkIndex, req.config)
       IN  IF env.cred \in {"missingKey", "missingProject"}
           THEN /\ Respond(chunkHandlerCatch(<<GCS_FRAGMENT>>, env.nodeEnv, req.chunkIndex))
                /\ UNCHANGED calls
           ELSE IF errs # <<>>
           THEN /\ calls' = calls \o <<"validate">>
                /\ Respond([Body EXCEPT !.status = 400, !.error = <<"Invalid input">>,
                                        !.details = errs, !.chunkIndex = req.chunkIndex])
           ELSE IF oversizeChunk(req.lenK)
           THEN /\ calls' = calls \o <<"validate", "sizeCheck">>
                /\ Respond([Body EXCEPT !.status = 413,
                                        !.error = <<"Audio chunk too large">>,
                                        !.maxSize = "50MB",
                                        !.chunkIndex = req.chunkIndex])
           ELSE IF env.cred = "badKey"
           THEN /\ calls' = calls \o <<"validate", "sizeCheck">>
                /\ Respond(chunkHandlerCatch(SyntaxErrorMsg, env.nodeEnv, req.chunkIndex))
           ELSE /\ calls' = calls \o <<"validate", "sizeCheck">>
                /\ pc' = "c_token"
                /\ UNCHANGED resps
    /\ UNCHANGED <<env, req, pollVars, provReply, staged, prevTimeout, speechRequest, audio, auxVars>>

\* await auth.getClient(); await authClient.getAccessToken(); buildChunkSpeechRequest
chunkHandler_Token ==
    /\ pc = "c_token"
    /\ calls' = Append(calls, "token")
    /\ \/ \E m \in TokenMsgs :
            Respond(chunkHandlerCatch(<<m>>, env.nodeEnv, req.chunkIndex))
       \/ pc' = "c_recognize" /\ UNCHANGED resps
    /\ UNCHANGED <<env, req, pollVars, provReply, staged, prevTimeout, speechRequest, audio, auxVars>>

\* await fetch(speech:recognize); await speechResponse.json(); the responses
chunkHandler_Recognize ==
    /\ pc = "c_recognize"
    /\ calls' = Append(calls, "recognize")
    /\ speechRequest' = buildChunkSpeechRequest(req.config)
    /\ audio' = inlineAudio(req.lenK)
    /\ \E r \in SyncReplies :
        /\ provReply' = r
        /\ Respond(chunkHandlerReply(r, env.nodeEnv, req.chunkIndex))
    /\ UNCHANGED <<env, req, pollVars, staged, prevTimeout, auxVars>>

----------------------------------------------------------------------------
(* handler of process-large-audio ("large") and driveAudioHandler ("drive") *)

\* try { JSON.parse(Buffer.from(process.env.GOOGLE_SERVICE_ACCOUNT_KEY, ..)) up
\* to the first await; GOOGLE_PROJECT_ID is not read
largeHandler_Start ==
    /\ pc = "start"
    /\ req.endpoint = "large"
    /\ IF env.cred = "missingKey"
       THEN Respond(plainCatch(BufferErrorMsg))
       ELSE IF env.cred = "badKey"
       THEN Respond(plainCatch(SyntaxErrorMsg))
       ELSE pc' = "l_token" /\ UNCHANGED resps
    /\ UNCHANGED <<env, req, calls, pollVars, provReply, staged, prevTimeout, speechRequest, audio, auxVars>>

\* await auth.getClient(); await authClient.getAccessToken(); speechRequest is
\* built from config
largeHandler_Token ==
    /\ pc = "l_token"
    /\ calls' = Append(calls, "token")
    /\ \/ \E m \in TokenMsgs : Respond(plainCatch(<<m>>))
       \/ IF ~req.config.present
          THEN Respond(plainCatch(TypeErrorMsg))
          ELSE pc' = "l_duration" /\ UNCHANGED resps
    /\ UNCHANGED <<env, req, pollVars, provReply, staged, prevTimeout, speechRequest, audio, auxVars>>

\* estimatedDurationMinutes > 4, with estimatedDurationMinutes = metadata.size / (1024 * 1024)
estimatedLong(sizeMB) == sizeMB > LongRunningOverMB

\* checkFileDuration: getMetadata() of the staged file; true when it fails
checkFileDuration ==
    /\ pc = "l_duration"
    /\ calls' = Append(calls, "getMetadata")
    /\ \/ /\ metadata' = [read |-> "failed", sizeMB |-> 0]
          /\ pc' = "lro_async"
       \/ \E sizeMB \in FileSizesMB :
            /\ metadata' = [read |-> "ok", sizeMB |-> sizeMB]
            /\ pc' = IF estimatedLong(sizeMB) THEN "lro_async" ELSE "std_recognize"
    /\ UNCHANGED <<env, req, pollVars, provReply, staged, resps, prevTimeout, speechRequest, audio,
                   bucket, signed, chunkVars, peerPc, peerStaged, isoVars, observed, cleanup>>

\* throw new Error(`Long running operation failed: ${error.message}`), caught
\* by the catch block of the calling handler
longRunningThrow(msg) == Respond(plainCatch(<<"Long running operation failed: ">> \o msg))

\* processLongRunningOperation: fetch(speech:longrunningrecognize)
processLongRunningOperation_Start ==
    /\ pc = "lro_async"
    /\ calls' = Append(calls, "longrunningrecognize")
    /\ speechRequest' = IF req.endpoint = "drive" THEN driveSpeechRequest(req.config)
                        ELSE largeHandlerSpeechRequest(req.config)
    /\ audio' = IF req.endpoint = "drive" THEN uriAudio(driveAudioUri(staged))
                ELSE uriAudio(largeHandlerAudioUri(LargeObjectName))
    /\ \E r \in AsyncReplies :
        /\ provReply' = r
        /\ IF r.kind = "netFail"
           THEN longRunningThrow(FetchFailedMsg)
           ELSE IF r.kind = "error"
           THEN longRunningThrow(<<"Speech API Error: ", TemplateMsg(r.msg)>>)
           ELSE pc' = "poll" /\ UNCHANGED resps
    /\ UNCHANGED <<env, req, pollVars, staged, prevTimeout, auxVars>>

\* processLongRunningOperation after the poller: the 200 response, after which
\* driveAudioHandler goes on to cleanupTempFile; or the error of the poller
\* rethrown to the catch block of the calling handler
processLongRunningOperation_Finish ==
    /\ pc = "polled"
    /\ req.endpoint \in {"large", "drive"}
    /\ IF pollOutcome.kind = "ok"
       THEN /\ resps' = Append(resps, [Body EXCEPT !.status = 200, !.success = "true",
                                                   !.results = pollOutcome.payload,
                                                   !.operationType = "long_running"])
            /\ pc' = IF req.endpoint = "drive" THEN "d_cleanup" ELSE "done"
       ELSE longRunningThrow(pollOutcome.msg)
    /\ UNCHANGED <<env, req, calls, pollVars, provReply, staged, prevTimeout, speechRequest, audio, auxVars>>

\* processStandardOperation: fetch(speech:recognize) and the response
processStandardOperation ==
    /\ pc = "std_recognize"
    /\ calls' = Append(calls, "recognize")
    /\ speechRequest' = largeHandlerSpeechRequest(req.config)
    /\ audio' = uriAudio(largeHandlerAudioUri(LargeObjectName))
    /\ \E r \in SyncReplies :
        /\ provReply' = r
        /\ IF r.kind = "netFail"
           THEN Respond(plainCatch(<<"Standard operation failed: ">> \o FetchFailedMsg))
           ELSE IF r.kind = "error"
           THEN Respond(plainCatch(<<"Standard operation failed: ", "Speech API Error: ",
                                     TemplateMsg(r.msg)>>))
           ELSE Respond([Body EXCEPT !.status = 200, !.success = "true",
                                     !.results = r.payload,
                                     !.operationType = "standard"])
    /\ UNCHANGED <<env, req, pollVars, staged, prevTimeout, auxVars>>

\* driveAudioHandler: try { JSON.parse(Buffer.from(key, ..)) up to the first await
driveAudioHandler_Start ==
    /\ pc = "start"
    /\ req.endpoint = "drive"
    /\ IF env.cred = "missingKey"
       THEN Respond(plainCatch(BufferErrorMsg))
       ELSE IF env.cred = "badKey"
       THEN Respond(plainCatch(SyntaxErrorMsg))
       ELSE pc' = "d_token" /\ UNCHANGED resps
    /\ UNCHANGED <<env, req, calls, pollVars, provReply, staged, prevTimeout, speechRequest, audio, auxVars>>

\* driveAudioHandler: await auth.getClient(); await authClient.getAccessToken()
driveAudioHandler_Token ==
    /\ pc = "d_token"
    /\ calls' = Append(calls, "token")
    /\ \/ \E m \in TokenMsgs : Respond(plainCatch(<<m>>))
       \/ pc' = "d_info" /\ UNCHANGED resps
    /\ UNCHANGED <<env, req, pollVars, provReply, staged, prevTimeout, speechRequest, audio, auxVars>>

\* copyDriveFileToStorage: fetch(drive/v3/files/<id>) and its json()
copyDriveFileToStorage_Info ==
    /\ pc = "d_info"
    /\ calls' = Append(calls, "driveInfo")
    /\ \/ Respond(plainCatch(FetchFailedMsg))
       \/ pc' = "d_media" /\ UNCHANGED resps
    /\ UNCHANGED <<env, req, pollVars, provReply, staged, prevTimeout, speechRequest, audio, auxVars>>

\* copyDriveFileToStorage: fetch(drive/v3/files/<id>?alt=media) and its arrayBuffer()
copyDriveFileToStorage_Media ==
    /\ pc = "d_media"
    /\ calls' = Append(calls, "driveMedia")
    /\ \/ Respond(plainCatch(FetchFailedMsg))
       \/ pc' = "d_save" /\ UNCHANGED resps
    /\ UNCHANGED <<env, req, pollVars, provReply, staged, prevTimeout, speechRequest, audio, auxVars>>

\* copyDriveFileToStorage: file.save(..) of temp/<Date.now()>-<fileInfo.name>,
\* the name the Drive answered with; back in driveAudioHandler
\* speechRequest is built from config
copyDriveFileToStorage_Save ==
    /\ pc = "d_save"
    /\ calls' = Append(calls, "put")
    /\ \/ /\ Respond(plainCatch(<<"storage: upload failed">>))
          /\ UNCHANGED <<staged, bucket>>
       \/ \E now \in Times, name \in FileNames :
             /\ staged' = driveObjectName(now, name)
             /\ bucket' = bucket \cup {driveObjectName(now, name)}
             /\ IF ~req.config.present
                THEN Respond(plainCatch(TypeErrorMsg))
                ELSE pc' = "lro_async" /\ UNCHANGED resps
    /\ UNCHANGED <<env, req, pollVars, provReply, prevTimeout, speechRequest, audio, peerVars>>

\* a cleanupTempFile without its try/catch: the failed delete reaches the
\* catch block of driveAudioHandler, which answers 500
cleanupTempFile_Rethrow ==
    /\ pc = "d_cleanup"
    /\ calls' = Append(calls, "delete")
    /\ pc' = "done"
    /\ \/ bucket' = bucket \ {staged} /\ UNCHANGED resps
       \/ /\ UNCHANGED bucket
          /\ resps' = Append(resps, plainCatch(<<"storage: delete failed">>))
    /\ UNCHANGED <<env, req, pollVars, provReply, staged, prevTimeout, speechRequest, audio, peerVars>>

\* cleanupTempFile: file(objectName).delete() removes the object of that
\* name; a failure leaves it, is logged with console.warn and swallowed
cleanupTempFile ==
    /\ pc = "d_cleanup"
    /\ calls' = Append(calls, "delete")
    /\ pc' = "done"
    /\ \/ bucket' = bucket \ {staged}
       \/ UNCHANGED bucket
    /\ UNCHANGED <<env, req, pollVars, provReply, staged, resps, prevTimeout, speechRequest, audio, peerVars>>

----------------------------------------------------------------------------
(* handler of src/speech-to-text.js, API-key version ("apikey") *)

\* try { if (!audioData || !config || !apiKey) return 400; requestBody is
\* built up to the first await
apiKeyHandler_Start ==
    /\ pc = "start"
    /\ req.endpoint = "apikey"
    /\ IF req.lenK = 0 \/ ~req.config.present \/ ~req.apiKey
       THEN Respond([Body EXCEPT !.status = 400,
                                 !.error = <<"Missing required parameters: audioData, config, apiKey">>])
       ELSE pc' = "k_recognize" /\ UNCHANGED resps
    /\ UNCHANGED <<env, req, calls, pollVars, provReply, staged, prevTimeout, speechRequest, audio, auxVars>>

\* await fetch(speech:recognize?key=..); await speechResponse.json(); the responses
apiKeyHandler_Recognize ==
    /\ pc = "k_recognize"
    /\ calls' = Append(calls, "recognize")
    /\ speechRequest' = apiKeySpeechRequest(req.config)
    /\ audio' = inlineAudio(req.lenK)
    /\ \E r \in SyncReplies :
        /\ provReply' = r
        /\ IF r.kind = "netFail"
           THEN Respond([Body EXCEPT !.status = 500,
                                     !.error = <<"Internal server error">>,
                                     !.message = FetchFailedMsg])
           ELSE IF r.kind = "error"
           THEN Respond([Body EXCEPT !.status = r.status,
                                     !.error = <<"Speech API Error: ">> \o MessageOr(r.msg),
                                     \* details: errorData, the body of the provider
                                     !.details = <<r.msg, ToString(r.code)>>])
           ELSE IF r.payload = 0
           THEN Respond([Body EXCEPT !.status = 400,
                                     !.error = <<"No text could be extracted from the audio (ja)">>])
           ELSE Respond([Body EXCEPT !.status = 200, !.success = "true",
                                     !.results = r.payload])
    /\ UNCHANGED <<env, req, pollVars, staged, prevTimeout, auxVars>>

----------------------------------------------------------------------------
(* Specifications *)

\* get-signed-url handler: credentials parsed, objectName built from
\* Date.now(), Math.random() and req.body.fileName, and getSignedUrl called
\* with expires: Date.now() + 15 * 60 * 1000, a second reading of the clock
getSignedUrl_Start ==
    /\ pc = "start"
    /\ req.endpoint = "signedUrl"
    /\ IF env.cred \in {"missingKey", "badKey"}
       THEN /\ Respond(plainCatch(<<"Failed to generate signed URL">>))
            /\ UNCHANGED <<calls, signed>>
       ELSE \E timestamp \in Times, randomString \in RandomStrings :
            \E now \in {t \in Times : t >= timestamp} :
               /\ signed' = [objectName |-> signedObjectName(timestamp, randomString, req.fileName),
                             action |-> "write",
                             expires |-> now + SignedUrlValidMs,
                             contentType |-> req.contentType,
                             at |-> now]
               /\ calls' = Append(calls, "sign")
               /\ pc' = "g_sign"
               /\ UNCHANGED resps
    /\ UNCHANGED <<env, req, pollVars, provReply, staged, prevTimeout, speechRequest, audio,
                   bucket, chunkVars, peerPc, peerStaged, isoVars, observed, cleanup, metadata>>

\* get-signed-url handler: the await of getSignedUrl; the response carries
\* the URL and the objectName of line 32
getSignedUrl_Sign ==
    /\ pc = "g_sign"
    /\ \/ Respond(plainCatch(<<"Failed to generate signed URL">>))
       \/ Respond([Body EXCEPT !.status = 200, !.signedUrl = signed,
                               !.objectName = signed.objectName])
    /\ UNCHANGED <<env, req, calls, pollVars, provReply, staged, prevTimeout, speechRequest, audio,
                   auxVars>>

----------------------------------------------------------------------------
(* cleanupHandler of src/unnamed/part_000 ("cleanup") *)

\* answers of the Drive to fetch(drive/v3/files/<id>, {method: 'DELETE'}):
\* the file is deleted, the Drive refuses (fetch resolves with a 4xx or 5xx
\* status), or fetch throws
DriveDeleteReplies == {"deleted", "refused", "netFail"}

\* results.errors.push(`Failed to delete ${objectName}: ${error.message}`)
FailedToDelete(objectName) == "Failed to delete " \o objectName

\* results.errors.push(`Failed to delete drive file ${fileId}: ${error.message}`)
FailedToDeleteDrive(fileId) == "Failed to delete drive file " \o fileId

\* res.status(200).json({ success: true, results: results })
cleanupReport(cl) ==
    [Body EXCEPT !.status = 200, !.success = "true", !.report = cl.results]

\* after the loop over objectNames: the loop over driveFileIds if there are
\* any, the response otherwise
cleanupAfterStorage(cl) ==
    IF Len(req.driveFileIds) > 0
    THEN pc' = "cl_token" /\ UNCHANGED resps
    ELSE Respond(cleanupReport(cl))

\* cleanupHandler: try { JSON.parse(Buffer.from(key, ..)) up to the first
\* await
cleanupHandler_Start ==
    /\ pc = "start"
    /\ req.endpoint = "cleanup"
    /\ IF env.cred = "missingKey"
       THEN Respond(plainCatch(BufferErrorMsg))
       ELSE IF env.cred = "badKey"
       THEN Respond(plainCatch(SyntaxErrorMsg))
       ELSE IF Len(req.objectNames) > 0
       THEN pc' = "cl_storage" /\ UNCHANGED resps
       ELSE cleanupAfterStorage(cleanup)
    /\ UNCHANGED <<env, req, calls, pollVars, provReply, staged, prevTimeout, speechRequest,
                   audio, auxVars>>

\* for (const objectName of objectNames): await bucket.file(objectName).delete()
\* and the push that follows it, in the try or in the catch
cleanupHandler_Delete ==
    /\ pc = "cl_storage"
    /\ calls' = Append(calls, "delete")
    /\ \E deleted \in BOOLEAN :
          LET i == cleanup.i + 1
              objectName == req.objectNames[i]
              cl == IF deleted
                    THEN [cleanup EXCEPT !.i = i,
                             !.results.deletedCloudStorage = Append(@, objectName),
                             !.gone = @ \cup {objectName}]
                    ELSE [cleanup EXCEPT !.i = i,
                             !.results.errors = Append(@, FailedToDelete(objectName))]
          IN  /\ cleanup' = cl
              /\ IF i < Len(req.objectNames)
                 THEN pc' = "cl_storage" /\ UNCHANGED resps
                 ELSE cleanupAfterStorage(cl)
    /\ UNCHANGED <<env, req, pollVars, provReply, staged, prevTimeout, speechRequest, audio,
                   bucket, signed, chunkVars, peerPc, peerStaged, isoVars, observed, metadata>>

\* await auth.getClient(); await authClient.getAccessToken(), before the
\* loop over driveFileIds; a failure reaches the catch block of the handler
cleanupHandler_Token ==
    /\ pc = "cl_token"
    /\ calls' = Append(calls, "token")
    /\ \/ \E m \in TokenMsgs : Respond(plainCatch(<<m>>))
       \/ pc' = "cl_drive" /\ UNCHANGED resps
    /\ UNCHANGED <<env, req, pollVars, provReply, staged, prevTimeout, speechRequest, audio,
                   auxVars>>

\* for (const fileId of driveFileIds): await fetch(.., {method: 'DELETE'})
\* and the push that follows it: into deletedDrive whenever fetch resolves,
\* into errors when it throws
cleanupHandler_DriveDelete ==
    /\ pc = "cl_drive"
    /\ calls' = Append(calls, "driveDelete")
    /\ \E r \in DriveDeleteReplies :
          LET j == cleanup.j + 1
              fileId == req.driveFileIds[j]
              cl == IF r = "netFail"
                    THEN [cleanup EXCEPT !.j = j,
                             !.results.errors = Append(@, FailedToDeleteDrive(fileId))]
                    ELSE [cleanup EXCEPT !.j = j,
                             !.results.deletedDrive = Append(@, fileId),
                             !.gone = IF r = "deleted" THEN @ \cup {fileId} ELSE @]
          IN  /\ cleanup' = cl
              /\ IF j < Len(req.driveFileIds)
                 THEN pc' = "cl_drive" /\ UNCHANGED resps
                 ELSE Respond(cleanupReport(cl))
    /\ UNCHANGED <<env, req, pollVars, provReply, staged, prevTimeout, speechRequest, audio,
                   bucket, signed, chunkVars, peerPc, peerStaged, isoVars, observed, metadata>>

InitCleanup == Init /\ req.endpoint = "cleanup"

NextCleanup ==
    \/ cleanupHandler_Start
    \/ cleanupHandler_Delete
    \/ cleanupHandler_Token
    \/ cleanupHandler_DriveDelete

SpecCleanup == InitCleanup /\ [][NextCleanup]_vars

Next ==
    \/ handler_Start
    \/ handler_Token
    \/ handler_Recognize
    \/ processLargeFileViaCloudStorage_Token
    \/ processLargeFileViaCloudStorage_Start
    \/ pollLongRunningOperation
    \/ processLargeFileViaCloudStorage_Finish
    \/ processAudioChunk_Recognize
    \/ chunkHandler_Start
    \/ chunkHandler_Token
    \/ chunkHandler_Recognize
    \/ largeHandler_Start
    \/ largeHandler_Token
    \/ checkFileDuration
    \/ processLongRunningOperation_Start
    \/ pollOperation
    \/ processLongRunningOperation_Finish
    \/ processStandardOperation
    \/ driveAudioHandler_Start
    \/ driveAudioHandler_Token
    \/ copyDriveFileToStorage_Info
    \/ copyDriveFileToStorage_Media
    \/ copyDriveFileToStorage_Save
    \/ cleanupTempFile
    \/ apiKeyHandler_Start
    \/ apiKeyHandler_Recognize
    \/ getSignedUrl_Start
    \/ getSignedUrl_Sign
    \/ cleanupHandler_Start
    \/ cleanupHandler_Delete
    \/ cleanupHandler_Token
    \/ cleanupHandler_DriveDelete

Spec == Init /\ [][Next]_vars

\* The caller of a staged request that timed out submits it again: a new
\* invocation of handler with the same body in the same deployment.
\* prevTimeout keeps what the caller received for the timed-out request.
Resubmit ==
    /\ pc = "done"
    /\ req.endpoint = "main"
    /\ pollOutcome.kind = "timeout"
    /\ prevTimeout' = Visible(resps[Len(resps)])
    /\ pc' = "start"
    /\ calls' = <<>>
    /\ attempt' = 0
    /\ fetches' = 0
    /\ sleptSec' = 0
    /\ pollOpErr' = FALSE
    /\ pollOutcome' = NoOutcome
    /\ donePayload' = -1
    /\ allTransient' = TRUE
    /\ provReply' = NoReply
    /\ staged' = ""
    /\ resps' = <<>>
    /\ speechRequest' = NoFields
    /\ audio' = NoAudio
    /\ UNCHANGED <<env, req, auxVars>>

NextSeq == Next \/ Resubmit

----------------------------------------------------------------------------
(* Two Drive requests at once: the request above and a concurrent one, in the
   same or in another instance of the function, that shares only the bucket.
   Of the concurrent request the two steps that touch the bucket are
   modelled; it owns the object peerStaged from its save to its cleanup. *)

\* copyDriveFileToStorage of the concurrent request: file.save(..) creates or
\* overwrites the object of that name
peer_copyDriveFileToStorage_Save ==
    /\ peerPc = "d_save"
    /\ peerPc' = "d_cleanup"
    /\ \E now \in Times, name \in FileNames :
          /\ peerStaged' = driveObjectName(now, name)
          /\ bucket' = bucket \cup {driveObjectName(now, name)}
    /\ UNCHANGED <<env, req, pc, calls, pollVars, provReply, staged, resps, prevTimeout,
                   speechRequest, audio, signed, chunkVars, isoVars, observed, cleanup, metadata>>

\* cleanupTempFile of the concurrent request
peer_cleanupTempFile ==
    /\ peerPc = "d_cleanup"
    /\ peerPc' = "done"
    /\ peerStaged' = ""
    /\ \/ bucket' = bucket \ {peerStaged}
       \/ UNCHANGED bucket
    /\ UNCHANGED <<env, req, pc, calls, pollVars, provReply, staged, resps, prevTimeout,
                   speechRequest, audio, signed, chunkVars, isoVars, observed, cleanup, metadata>>

----------------------------------------------------------------------------
(* A chunked request: the chunks 0 .. NumChunks - 1 are submitted at once,
   each as a request of mode chunk_processing, and complete in any order;
   when all have completed their responses are merged. *)

\* chunk handlers that keep a second recognition call going
RecognizeFetches_Two == {"speech:recognize", "speech:recognize again"}

\* the fetch calls a chunk request has with the provider from its call to
\* the answer: the handler awaits its one fetch(speech:recognize)
RecognizeFetches == {"speech:recognize"}

\* a free worker of the pool submits a chunk not yet submitted, and the
\* handler of that chunk request calls the provider
transcribeChunked_Submit ==
    /\ Cardinality(inFlight) < WorkerPoolLimit
    /\ \E i \in ChunkOrder :
          /\ i \notin inFlight /\ chunkReply[i] = NoReply
          /\ inFlight' = inFlight \cup {i}
    /\ UNCHANGED <<env, req, pc, calls, pollVars, provReply, staged, resps, prevTimeout,
                   speechRequest, audio, bucket, signed, chunkReply, chunkResults, merged,
                   peerPc, peerStaged, isoVars, observed, cleanup, metadata>>

\* one chunk call completes: the entry point answers for chunk i and the
\* worker is free again
transcribeChunked_Chunk ==
    /\ \E i \in inFlight, r \in SyncReplies :
          /\ inFlight' = inFlight \ {i}
          /\ chunkReply' = [chunkReply EXCEPT ![i] = r]
          /\ chunkResults' = Append(chunkResults,
                IF req.endpoint = "chunk" THEN chunkHandlerReply(r, env.nodeEnv, i)
                ELSE processAudioChunkReply(r, i))
    /\ UNCHANGED <<env, req, pc, calls, pollVars, provReply, staged, resps, prevTimeout,
                   speechRequest, audio, bucket, signed, merged, peerPc, peerStaged, isoVars, observed, cleanup, metadata>>

RECURSIVE SucceededFrom(_, _)
\* the transcripts of the succeeded chunks of index k and up, by index
SucceededFrom(results, k) ==
    IF k > NumChunks - 1 THEN <<>>
    ELSE LET ofK == SelectSeq(results, LAMBDA x : x.chunkIndex = k /\ x.success = "true")
         IN  [j \in 1..Len(ofK) |-> TranscriptText(ofK[j].transcript)]
             \o SucceededFrom(results, k + 1)

\* merge rule: the transcripts of the succeeded chunks in ascending
\* chunk-index order, one space between chunks
mergeTranscripts(results) == JoinSpace(SucceededFrom(results, 0))

\* aggregate confidence: the mean, as sum and number, of the confidences of
\* the succeeded chunks that returned a result, which are those with a
\* transcript
aggregateConfidence(results) ==
    LET counted == SelectSeq(results, LAMBDA x : x.success = "true" /\ x.transcript > 0)
    IN  [sum |-> Sum([j \in 1..Len(counted) |-> counted[j].confidence]),
         of |-> Len(counted)]

RECURSIVE FailedFrom(_, _)
\* the failed chunks of index k and up with their reasons, by index
FailedFrom(results, k) ==
    IF k > NumChunks - 1 THEN <<>>
    ELSE LET ofK == SelectSeq(results, LAMBDA x : x.chunkIndex = k /\ x.success # "true")
         IN  [j \in 1..Len(ofK) |->
                 [chunkIndex |-> k, error |-> ofK[j].error, message |-> ofK[j].message]]
             \o FailedFrom(results, k + 1)

\* PartialFailure: the list of failed chunk indices and reasons
failedChunks(results) == FailedFrom(results, 0)

\* the merge step, once every chunk call has completed
transcribeChunked_Merge ==
    /\ Len(chunkResults) = NumChunks
    /\ ~merged.done
    /\ merged' = [done |-> TRUE,
                  transcript |-> mergeTranscripts(chunkResults),
                  confidence |-> aggregateConfidence(chunkResults),
                  success |-> failedChunks(chunkResults) = <<>>,
                  failedChunks |-> failedChunks(chunkResults)]
    /\ UNCHANGED <<env, req, pc, calls, pollVars, provReply, staged, resps, prevTimeout,
                   speechRequest, audio, bucket, signed, inFlight, chunkReply, chunkResults,
                   peerPc, peerStaged, isoVars, observed, cleanup, metadata>>

InitChunks ==
    /\ Init
    /\ env = [cred |-> "ok", nodeEnv |-> "production", storageBucket |-> ""]
    /\ req.config = CfgValid /\ req.lenK = 6827 /\ req.chunkIndex = 0
    /\ \/ req.endpoint = "main" /\ req.mode = "chunk_processing"
       \/ req.endpoint = "chunk"

NextChunks ==
    \/ transcribeChunked_Submit
    \/ transcribeChunked_Chunk
    \/ transcribeChunked_Merge

SpecChunks == InitChunks /\ [][NextChunks]_vars

----------------------------------------------------------------------------
(* Two invocations of the main handler in one process.  An invocation runs
   from one await to the next, which is one action above; at an await, the
   setTimeout of the poller among them, the event loop may resume the other
   invocation.  The parameters and local variables of an invocation are its
   own; process.env is all the two share. *)

\* the parameters and local variables of the running invocation
Locals ==
    [req |-> req, pc |-> pc, calls |-> calls, attempt |-> attempt, fetches |-> fetches,
     sleptSec |-> sleptSec, pollOpErr |-> pollOpErr, pollOutcome |-> pollOutcome,
     donePayload |-> donePayload, allTransient |-> allTransient, provReply |-> provReply,
     staged |-> staged, resps |-> resps, speechRequest |-> speechRequest,
     audio |-> audio]

\* a poller whose attempt counter is a variable of the module: the invocation
\* resumed finds the count of the other
Resumed_SharedAttempt(saved) == [saved EXCEPT !.attempt = attempt]

\* what an invocation finds of its variables when it is resumed: what it
\* left, for (let attempt = 0; ..) included
Resumed(saved) == saved

\* the event loop suspends the running invocation at its await and resumes
\* the other one
Switch ==
    /\ other # NoInvocation
    /\ other.pc # "done"
    /\ running' = IF running = "A" THEN "B" ELSE "A"
    /\ other' = Locals
    /\ LET mine == Resumed(other)
       IN  /\ req' = mine.req
           /\ pc' = mine.pc
           /\ calls' = mine.calls
           /\ attempt' = mine.attempt
           /\ fetches' = mine.fetches
           /\ sleptSec' = mine.sleptSec
           /\ pollOpErr' = mine.pollOpErr
           /\ pollOutcome' = mine.pollOutcome
           /\ donePayload' = mine.donePayload
           /\ allTransient' = mine.allTransient
           /\ provReply' = mine.provReply
           /\ staged' = mine.staged
           /\ resps' = mine.resps
           /\ speechRequest' = mine.speechRequest
           /\ audio' = mine.audio
    /\ UNCHANGED <<env, prevTimeout, bucket, signed, chunkVars, peerPc, peerStaged, observed, cleanup, metadata>>

\* a staged request, and with it a direct request that has just arrived
InitIso ==
    /\ env = [cred |-> "ok", nodeEnv |-> "production", storageBucket |-> ""]
    /\ req = [endpoint |-> "main", mode |-> "large_file_cloud_storage", config |-> CfgValid,
              lenK |-> 0, chunkIndex |-> -1, audioUri |-> CallerUri]
    /\ pc = "start"
    /\ calls = <<>>
    /\ attempt = 0
    /\ fetches = 0
    /\ sleptSec = 0
    /\ pollOpErr = FALSE
    /\ pollOutcome = NoOutcome
    /\ donePayload = -1
    /\ allTransient = TRUE
    /\ provReply = NoReply
    /\ staged = ""
    /\ resps = <<>>
    /\ prevTimeout = Body
    /\ speechRequest = NoFields
    /\ audio = NoAudio
    /\ bucket = {}
    /\ signed = NoSigned
    /\ inFlight = {}
    /\ chunkReply = [i \in ChunkOrder |-> NoReply]
    /\ chunkResults = <<>>
    /\ merged = NotMerged
    /\ observed = NotObserved
    /\ running = "A"
    /\ other = [Locals EXCEPT !.req = [endpoint |-> "main", mode |-> "direct",
                                        config |-> CfgValid, lenK |-> 6827,
                                        chunkIndex |-> -1]]
    /\ peerPc = "d_save"
    /\ peerStaged = ""
    /\ cleanup = NoCleanup
    /\ metadata = NoMetadata

\* a step of the running invocation
HandlerStep ==
    \/ handler_Start
    \/ handler_Token
    \/ handler_Recognize
    \/ processLargeFileViaCloudStorage_Token
    \/ processLargeFileViaCloudStorage_Start
    \/ pollLongRunningOperation
    \/ processLargeFileViaCloudStorage_Finish

NextIso ==
    \/ HandlerStep
    \/ Switch

SpecIso == InitIso /\ [][NextIso]_vars

\* the event loop runs every callback that is ready: a fetch that has
\* answered and a timer that has expired resume their invocation
FairSpecIso == SpecIso /\ WF_vars(HandlerStep) /\ WF_vars(Switch)

----------------------------------------------------------------------------
(* The two pollers under observation: a staged request to the main handler
   and a request to process-large-audio *)

InitPoll ==
    /\ Init
    /\ env = [cred |-> "ok", nodeEnv |-> "production", storageBucket |-> ""]
    /\ req.config = CfgValid
    /\ \/ req.endpoint = "main" /\ req.mode = "large_file_cloud_storage"
       \/ req.endpoint = "large"

NextPoll ==
    \/ handler_Start
    \/ handler_Token
    \/ processLargeFileViaCloudStorage_Token
    \/ processLargeFileViaCloudStorage_Start
    \/ pollLongRunningOperation_Observed
    \/ processLargeFileViaCloudStorage_Finish
    \/ largeHandler_Start
    \/ largeHandler_Token
    \/ checkFileDuration
    \/ processLongRunningOperation_Start
    \/ pollOperation_Observed
    \/ processLongRunningOperation_Finish
    \/ processStandardOperation

SpecPoll == InitPoll /\ [][NextPoll]_vars

InitPair == Init /\ req.endpoint = "drive" /\ env.nodeEnv = "production"

NextPair ==
    \/ driveAudioHandler_Start
    \/ driveAudioHandler_Token
    \/ copyDriveFileToStorage_Info
    \/ copyDriveFileToStorage_Media
    \/ copyDriveFileToStorage_Save
    \/ processLongRunningOperation_Start
    \/ pollOperation
    \/ processLongRunningOperation_Finish
    \/ cleanupTempFile
    \/ peer_copyDriveFileToStorage_Save
    \/ peer_cleanupTempFile

SpecPair == InitPair /\ [][NextPair]_vars

SpecSeq == Init /\ [][NextSeq]_vars

----------------------------------------------------------------------------
(* Properties *)

\* number of calls made to a collaborator: token provider, recognition
\* provider, Drive, object storage
CollaboratorCalls ==
    fetches
    + Cardinality({ i \in 1..Len(calls) :
                      calls[i] \in {"token", "recognize", "longrunningrecognize",
                                    "driveInfo", "driveMedia", "put", "delete",
                                    "getMetadata"} })

\* the config of the request fails the validation of its endpoint (the audio
\* and the chunk index taken as given)
ConfigInvalid ==
    IF req.endpoint = "chunk"
    THEN validateChunkInput(1, 0, req.config) # <<>>
    ELSE validateInput(1, req.config) # <<>>

\* the response the caller received
LastResp == resps[Len(resps)]

\* C1 (as claimed): a request whose config fails validation causes no
\* collaborator call at all, in direct, staged and chunked mode: no token
\* fetch, no recognition call, no storage call.
C1_NoCallWhenInvalid ==
    (req.endpoint \in {"main", "svc", "chunk"} /\ ConfigInvalid)
        => CollaboratorCalls = 0

\* C2 (as claimed): a Drive-audio request that staged an object has issued
\* exactly one delete of it when the request ends, on every outcome.
C2_ExactlyOneUnstage ==
    (req.endpoint = "drive" /\ staged # "" /\ pc = "done")
        => Count(calls, "delete") = 1

\* C3 (as claimed): when a status poll reports the operation done with an
\* error, the poller returns Err at that poll, with no further fetch or sleep.
C3_ErrAtThatPoll ==
    pollOpErr => (pc # "poll" /\ pollOutcome.kind = "err")

\* every status fetch so far reported RUNNING
AllRunning == fetches = attempt /\ sleptSec = PollIntervalSec * attempt

\* C4: against a provider that reports RUNNING on every poll the poller
\* terminates: while it polls, attempts remain (and every iteration uses one
\* up); it never issues more status fetches than the attempt bound; after the
\* bound of RUNNING polls it has left the loop with the timed-out outcome; a
\* timed-out poller has issued exactly the attempt bound of fetches.
C4_PollerTerminates ==
    /\ fetches <= MaxAttemptsOf(req.endpoint)
    /\ fetches \in {attempt, attempt + 1}
    /\ pc = "poll" => (attempt < MaxAttemptsOf(req.endpoint) /\ fetches = attempt)
    /\ (AllRunning /\ fetches = MaxAttemptsOf(req.endpoint))
           => (pc # "poll" /\ pollOutcome.kind = "timeout")
    /\ pollOutcome.kind = "timeout"
           => (pc # "poll" /\ fetches = MaxAttemptsOf(req.endpoint))

\* C4 witness: the staged path of the main endpoint timed out after 120
\* polls that all reported RUNNING.
C4_Witness ==
    /\ req.endpoint = "main"
    /\ AllRunning
    /\ fetches = MaxAttemptsLRO
    /\ pollOutcome.kind = "timeout"

C6_SleepWithinTimeout == sleptSec <= TimeoutSec

\* C7 (as claimed): in every poller the attempt bound is timeout /
\* pollInterval: with a provider that always reports RUNNING every poller
\* gives up after the same 600 s.
C7_SameDeadline ==
    (AllRunning /\ pollOutcome.kind = "timeout") => sleptSec = TimeoutSec

\* the recognition provider rejected the longrunningrecognize call
AsyncRejected ==
    Count(calls, "longrunningrecognize") = 1 /\ provReply.kind = "error"

\* the poller threw the error the provider reported for the operation
OperationFailed ==
    /\ pollOutcome.kind = "err"
    /\ pollOutcome.msg[1] = "Operation error: "

\* C8 (as claimed): the result of a staged request that timed out is
\* distinguishable, by what the caller can see of it, from the result of a
\* staged request whose operation the provider reported failed or whose
\* recognition call the provider rejected.
C8_TimeoutDistinct ==
    (/\ req.endpoint = "main"
     /\ req.mode = "large_file_cloud_storage"
     /\ pc = "done"
     /\ (AsyncRejected \/ OperationFailed)
     /\ prevTimeout.status # 0)
        => Visible(LastResp) # prevTimeout

\* C9: a request to the main endpoint takes the path its mode names and no
\* other: staged mode only ever calls longrunningrecognize (once) and polls
\* only after it, without validation or a synchronous call; chunk mode makes
\* at most one synchronous call from processAudioChunk, without validation,
\* async call or poll; any other mode validates, checks the size and then
\* makes at most one synchronous call, without async call or poll.  No request
\* issues both a synchronous and an asynchronous recognition call.
C9_OnePathByMode ==
    req.endpoint = "main" =>
        /\ ~(Count(calls, "recognize") > 0 /\ Count(calls, "longrunningrecognize") > 0)
        /\ Count(calls, "recognize") <= 1
        /\ Count(calls, "longrunningrecognize") <= 1
        /\ fetches > 0 => Count(calls, "longrunningrecognize") = 1
        /\ req.mode = "large_file_cloud_storage" =>
              /\ pc \in {"start", "token", "lf_token", "lf_async", "poll", "polled", "done"}
              /\ Count(calls, "recognize") = 0
              /\ Count(calls, "validate") = 0
        /\ req.mode = "chunk_processing" =>
              /\ pc \in {"start", "token", "pac_recognize", "done"}
              /\ Count(calls, "longrunningrecognize") = 0
              /\ Count(calls, "validate") = 0
        /\ req.mode \notin {"large_file_cloud_storage", "chunk_processing"} =>
              /\ pc \in {"start", "token", "recognize", "done"}
              /\ Count(calls, "longrunningrecognize") = 0
              /\ pc = "recognize" => calls = <<"token", "validate", "sizeCheck">>
              /\ Count(calls, "recognize") = 1 =>
                    calls = <<"token", "validate", "sizeCheck", "recognize">>

\* C9 witness: a chunk_processing request answered by processAudioChunk after
\* its one synchronous call.
C9_Witness ==
    /\ req.endpoint = "main"
    /\ req.mode = "chunk_processing"
    /\ pc = "done"
    /\ calls = <<"token", "recognize">>
    /\ LastResp.processingMode = "chunk"

\* the request passed validation on the direct path and reached the size check
SizeChecked == Count(calls, "sizeCheck") = 1

\* the request was answered with the oversize error
Rejected413 == pc = "done" /\ LastResp.status = 413

----------------------------------------------------------------------------
(* Properties of the validators and of the request builders *)

Has(seq, x) == \E i \in 1..Len(seq) : seq[i] = x

\* the request went through validateInput / validateChunkInput
Validated == Count(calls, "validate") = 1

\* the request was answered with the validation error
RejectedInvalid ==
    pc = "done" /\ LastResp.status = 400 /\ LastResp.error = <<"Invalid input">>

\* the request is one whose audio and chunk index are in order and whose
\* config is an object, so that only the fields of config are in question
ConfigInQuestion ==
    /\ req.endpoint \in {"main", "svc", "chunk"}
    /\ req.lenK # 0
    /\ req.endpoint = "chunk" => req.chunkIndex # -1
    /\ req.config.present

\* diarization is requested with a minimum speaker count below 1
MinBelowOne(d) == d.given /\ d.minSpeakerCount # 0 /\ d.minSpeakerCount < 1

\* diarization is requested with a maximum speaker count below the minimum
MaxBelowMin(d) ==
    /\ d.given
    /\ d.minSpeakerCount # 0
    /\ d.maxSpeakerCount # 0
    /\ d.maxSpeakerCount < d.minSpeakerCount

\* the checks of the validator a config violates: encoding present and
\* supported, language code present, sample rate (if given) within
\* [8000, 48000], and, if diarization is requested, min speaker count >= 1
\* and max >= min
ViolatedChecks(config) ==
    (IF config.encoding = "" \/ config.encoding \notin supportedEncodings
     THEN {"encoding"} ELSE {})
    \cup (IF config.languageCode = "" THEN {"languageCode"} ELSE {})
    \cup (IF config.rateGiven /\ (config.sampleRateHertz < 8000 \/ config.sampleRateHertz > 48000)
          THEN {"sampleRateHertz"} ELSE {})
    \cup (IF MinBelowOne(config.diarizationConfig) THEN {"minSpeakerCount"} ELSE {})
    \cup (IF MaxBelowMin(config.diarizationConfig) THEN {"maxSpeakerCount"} ELSE {})

\* C11 (as claimed): validation returns exactly one error per violated check
\* and none for a satisfied one: a validated request is rejected exactly when
\* its config violates a check, the error list has one entry per violated
\* check, and the sample-rate error is in it exactly when the sample rate is
\* the violation (sampleRateHertz = 7000 yields only the sample-rate error).
C11_OneErrorPerViolation ==
    (ConfigInQuestion /\ Validated) =>
        /\ RejectedInvalid <=> ViolatedChecks(req.config) # {}
        /\ RejectedInvalid =>
              /\ Len(LastResp.details) = Cardinality(ViolatedChecks(req.config))
              /\ Has(LastResp.details, "sampleRateHertz must be between 8000 and 48000")
                     <=> "sampleRateHertz" \in ViolatedChecks(req.config)
              /\ Has(LastResp.details, "config.languageCode is required")
                     <=> "languageCode" \in ViolatedChecks(req.config)

\* a recognition payload has been sent for the request
PayloadSent == speechRequest # NoFields

\* C12 (as claimed): in every mode a request whose config lacks a language
\* code or an encoding, or names an encoding outside the supported set, ends
\* in a validation error: a recognition payload is sent only for a config
\* with a language code and a supported encoding, and it carries the
\* caller's values, none filled in by default.
C12_NoDefaultedPayload ==
    (req.endpoint \in {"main", "svc", "chunk"} /\ PayloadSent) =>
        /\ req.config.languageCode # ""
        /\ req.config.encoding \in supportedEncodings
        /\ speechRequest["languageCode"] = req.config.languageCode
        /\ speechRequest["encoding"] = req.config.encoding

\* the request asks for diarization with a minimum speaker count below 1 or
\* a maximum below the minimum
BadSpeakerCounts ==
    /\ req.config.present
    /\ \/ MinBelowOne(req.config.diarizationConfig)
       \/ MaxBelowMin(req.config.diarizationConfig)

\* C13 (as claimed): a request that asks for diarization with a minimum
\* speaker count below 1, or a maximum below the minimum, is rejected by
\* validation and never reaches the recognition provider.
C13_BadSpeakerCountsRejected ==
    (req.endpoint \in {"main", "svc", "chunk"} /\ BadSpeakerCounts) =>
        /\ ~PayloadSent
        /\ Count(calls, "recognize") = 0
        /\ Count(calls, "longrunningrecognize") = 0
        /\ (ConfigInQuestion /\ Validated) => RejectedInvalid

\* the config gives a sample rate outside [8000, 48000]
RateOutOfRange ==
    /\ req.config.present
    /\ req.config.rateGiven
    /\ (req.config.sampleRateHertz < 8000 \/ req.config.sampleRateHertz > 48000)

\* C14 (as claimed): whenever a config gives a sample rate, validation accepts
\* it only if it lies in [8000, 48000]: a validated request with a given value
\* outside the range (0 and negative values included) is rejected with the
\* sample-rate error, in direct mode and on the chunk endpoint.
C14_SampleRateInRange ==
    (ConfigInQuestion /\ Validated /\ RateOutOfRange) =>
        /\ RejectedInvalid
        /\ Has(LastResp.details, "sampleRateHertz must be between 8000 and 48000")

\* the properties the request builders name: the fixed fields of the
\* profiles and the fields a caller may set
AllowList ==
    {"encoding", "sampleRateHertz", "languageCode", "model", "useEnhanced",
     "enableAutomaticPunctuation", "enableWordTimeOffsets", "enableWordConfidence",
     "maxAlternatives", "profanityFilter", "audioChannelCount",
     "enableSeparateRecognitionPerChannel", "diarizationConfig"}

\* C15 (as claimed): the config of every recognition payload holds only
\* fields of the allow-list, whatever the caller put in its config, and the
\* model, a fixed field of the profile, is the profile's and not the caller's.
C15_AllowListOnly ==
    PayloadSent =>
        /\ DOMAIN speechRequest \subseteq AllowList
        /\ speechRequest["model"] \in {"latest_long", "latest_short"}

\* the request is for a chunk: the chunk_processing mode of the main endpoint
\* or the process-audio-chunk endpoint
ChunkRequest ==
    \/ req.endpoint = "chunk"
    \/ req.endpoint = "main" /\ req.mode = "chunk_processing"

\* C16 (as claimed): every recognition payload built for a chunk, through
\* either chunk entry point, uses the short-form model with confidence
\* scoring enabled, carries a diarization config only when the caller
\* enabled diarization, and then with at most 2 speakers.
C16_ChunkProfile ==
    (ChunkRequest /\ PayloadSent) =>
        /\ speechRequest["model"] = "latest_short"
        /\ "enableWordConfidence" \in DOMAIN speechRequest
        /\ speechRequest["enableWordConfidence"] = TRUE
        /\ "diarizationConfig" \in DOMAIN speechRequest =>
              /\ req.config.enableDiarization
              /\ speechRequest["diarizationConfig"].enableSpeakerDiarization
              /\ speechRequest["diarizationConfig"].maxSpeakerCount <= 2

----------------------------------------------------------------------------
(* Properties of the staged objects and of the signed URLs *)

\* the request is between its save and the end of its operation: the
\* provider reads the object staged
UsesStaged == staged # "" /\ pc \in {"lro_async", "poll", "polled"}

\* C17: two concurrent requests never hold the same staged object name, and
\* an object a request still uses is in the bucket: the cleanup of one
\* request never deletes the object of the other
C17_DistinctStagedObjects ==
    /\ (staged # "" /\ peerStaged # "") => staged # peerStaged
    /\ peerStaged # "" => peerStaged \in bucket
    /\ UsesStaged => staged \in bucket

\* the delete of cleanupTempFile failed: the request has ended after its
\* delete call and its object is still in the bucket
DeleteFailed ==
    /\ pc = "done" /\ req.endpoint = "drive"
    /\ Count(calls, "delete") = 1
    /\ staged \in bucket

\* C18: a failed delete of the staged object leaves the result as it was, one
\* successful response and no error response, and the result reports the
\* failed delete as a warning
C18_FailedDeleteReported ==
    DeleteFailed =>
        /\ Len(resps) = 1
        /\ LastResp.status = 200 /\ LastResp.success = "true"
        /\ LastResp.warnings # <<>>

\* what the code keeps of it: the result is the one successful response
FailedDeleteKeepsResult ==
    DeleteFailed =>
        /\ Len(resps) = 1
        /\ LastResp.status = 200 /\ LastResp.success = "true"

\* the get-signed-url handler has answered with a signed URL
UrlIssued == req.endpoint = "signedUrl" /\ pc = "done" /\ LastResp.status = 200

\* C19: every signed upload URL issued is for the write action on one object
\* name and one content type, expires 15 minutes (900000 ms) after its
\* issue, and the object name returned is the one the URL was signed for
C19_SignedUrlScope ==
    UrlIssued =>
        /\ LastResp.signedUrl.action = "write"
        /\ LastResp.signedUrl.objectName # ""
        /\ LastResp.signedUrl.contentType # ""
        /\ LastResp.signedUrl.expires = LastResp.signedUrl.at + 900000
        /\ LastResp.objectName = LastResp.signedUrl.objectName

\* what holds of every URL issued, whatever the request left out
SignedUrlWriteOneObject ==
    UrlIssued =>
        /\ LastResp.signedUrl.action = "write"
        /\ LastResp.signedUrl.objectName # ""
        /\ LastResp.signedUrl.expires = LastResp.signedUrl.at + 900000
        /\ LastResp.objectName = LastResp.signedUrl.objectName
        /\ req.contentType # "" => LastResp.signedUrl.contentType = req.contentType

----------------------------------------------------------------------------
(* Properties of the chunk merge *)

RECURSIVE IndexOrderTexts(_)
\* the transcripts the provider gave for the chunks k .. NumChunks - 1 that
\* succeeded, chunk k first
IndexOrderTexts(k) ==
    IF k > NumChunks - 1 THEN <<>>
    ELSE (IF chunkReply[k].kind = "ok"
          THEN <<TranscriptText(chunkReply[k].payload)>> ELSE <<>>)
         \o IndexOrderTexts(k + 1)

\* C20: the merged transcript is the chunk transcripts in ascending
\* chunk-index order with one space between them, whatever the order in
\* which the chunk calls completed
C20_MergeByIndex ==
    merged.done => merged.transcript = JoinSpace(IndexOrderTexts(0))

\* chunk 2 completed first, chunk 0 last, each with another transcript
C20_Witness ==
    /\ merged.done
    /\ Len(chunkResults) = 3
    /\ chunkResults[1].chunkIndex = 2 /\ chunkResults[3].chunkIndex = 0
    /\ chunkReply[0].payload = 1 /\ chunkReply[1].payload = 2 /\ chunkReply[2].payload = 1
    /\ merged.transcript = "r11 r21 r22 r11"

\* the confidence either entry point reports for a chunk with the results
\* of payload p > 0: the main endpoint that of the first result, the chunk
\* endpoint the mean over the results
ReportedConfidence(p) ==
    IF req.endpoint = "chunk"
    THEN Sum(ResultConfidences(p)) \div p
    ELSE ResultConfidences(p)[1]

RECURSIVE CountedConfidences(_)
\* the confidences of the chunks k .. NumChunks - 1 that succeeded with at
\* least one result
CountedConfidences(k) ==
    IF k > NumChunks - 1 THEN <<>>
    ELSE (IF chunkReply[k].kind = "ok" /\ chunkReply[k].payload > 0
          THEN <<ReportedConfidence(chunkReply[k].payload)>> ELSE <<>>)
         \o CountedConfidences(k + 1)

FailedIndexes == { k \in ChunkOrder : chunkReply[k].kind # "ok" }

\* the texts of a failure entry
ReasonTexts(entry) == { entry.error[j] : j \in 1..Len(entry.error) }
                      \cup { entry.message[j] : j \in 1..Len(entry.message) }

\* every chunk that failed failed with a provider error
OnlyProviderErrors == \A k \in ChunkOrder : chunkReply[k].kind \in {"ok", "error"}

\* C22: a chunk failing with a provider error does not abort its siblings:
\* every chunk is answered, the result has success = false exactly when a
\* chunk failed, lists exactly the failed chunks, by index and each with its
\* reason (the message of the provider when the provider gave one), and the
\* transcript is the text of the succeeded chunks in index order
C22_PartialFailure ==
    (merged.done /\ OnlyProviderErrors) =>
        /\ \A k \in ChunkOrder : chunkReply[k] # NoReply
        /\ merged.success = (FailedIndexes = {})
        /\ Len(merged.failedChunks) = Cardinality(FailedIndexes)
        /\ \A j \in 1..Len(merged.failedChunks) :
              LET entry == merged.failedChunks[j]
              IN  /\ entry.chunkIndex \in FailedIndexes
                  /\ j > 1 => merged.failedChunks[j - 1].chunkIndex < entry.chunkIndex
                  /\ entry.error # <<>>
                  /\ (chunkReply[entry.chunkIndex].kind = "error"
                      /\ chunkReply[entry.chunkIndex].msg # "")
                     => chunkReply[entry.chunkIndex].msg \in ReasonTexts(entry)
        /\ merged.transcript = JoinSpace(IndexOrderTexts(0))

\* chunk 1 of 3 failed with a provider error before chunk 0 had completed,
\* chunks 0 and 2 succeeded
C22_Witness ==
    /\ merged.done
    /\ chunkResults[1].chunkIndex = 1 /\ chunkResults[2].chunkIndex = 0
    /\ chunkReply[1].kind = "error" /\ chunkReply[1].msg = "Quota exceeded"
    /\ chunkReply[0].payload = 1 /\ chunkReply[2].payload = 2
    /\ ~merged.success
    /\ Len(merged.failedChunks) = 1 /\ merged.failedChunks[1].chunkIndex = 1
    /\ merged.transcript = "r11 r21 r22"

\* chunk recognition calls in flight at the provider
CallsInFlight == Cardinality(inFlight) * Cardinality(RecognizeFetches)

----------------------------------------------------------------------------
(* Properties of the error responses *)

\* the request ended on a recognition call that the provider answered with
\* a non-success status
RecognitionRejected ==
    /\ pc = "done" /\ calls # <<>>
    /\ calls[Len(calls)] \in {"recognize", "longrunningrecognize"}
    /\ provReply.kind = "error"

\* the texts of a response
ResponseTexts(r) == { r.error[j] : j \in 1..Len(r.error) }
                    \cup { r.message[j] : j \in 1..Len(r.message) }
                    \cup { r.details[j] : j \in 1..Len(r.details) }

\* C24: in every mode, when a recognition call returns a non-success status
\* the result carries the code and the message the provider supplied, and
\* the failed call is not issued a second time
C24_ProviderErrorSurfaced ==
    RecognitionRejected =>
        /\ \/ LastResp.code = provReply.code
           \/ ToString(provReply.code) \in ResponseTexts(LastResp)
        /\ provReply.msg # "" => provReply.msg \in ResponseTexts(LastResp)
        /\ Count(calls, "recognize") + Count(calls, "longrunningrecognize") = 1

\* what holds of it in every mode: one response, and no second call
RejectedCallNotRepeated ==
    RecognitionRejected =>
        /\ Len(resps) = 1
        /\ Count(calls, "recognize") + Count(calls, "longrunningrecognize") = 1

\* the service-account key or the project id is missing, or the key does
\* not decode into credentials
BadEnvironment == env.cred \in {"missingKey", "missingProject", "badKey"}

\* C25: with the key or the project id missing or the key undecodable, the
\* request to a handler that checks its environment (main, chunk) makes no
\* call to a collaborator and ends with the configuration error in one
\* response
C25_ConfigurationError ==
    (BadEnvironment /\ req.endpoint \in {"main", "svc", "chunk"}) =>
        /\ CollaboratorCalls = 0
        /\ pc = "done" =>
              /\ Len(resps) = 1
              /\ LastResp.status = 500
              /\ LastResp.error = <<"Server configuration error">>

\* what holds of it in those handlers: no collaborator is called and the
\* request ends with one response
BadEnvironmentNoCalls ==
    (BadEnvironment /\ req.endpoint \in {"main", "svc", "chunk"}) =>
        /\ CollaboratorCalls = 0
        /\ pc = "done" => Len(resps) = 1

----------------------------------------------------------------------------
(* Properties of the chunk responses *)

\* a chunk entry point has answered a chunk the provider recognized
ChunkAnswered ==
    /\ pc = "done" /\ provReply.kind = "ok"
    /\ LastResp.status = 200 /\ LastResp.processingMode = "chunk"

\* the mean of the confidences of the results of payload p, 0 without results
MeanConfidence(p) ==
    IF p = 0 THEN 0 ELSE Sum(ResultConfidences(p)) \div p

\* C26: the confidence reported for a chunk is the mean of the confidences
\* of all its recognition results and 0 without results, at both chunk
\* entry points, which so report the same for the same provider response
C26_ChunkConfidence ==
    ChunkAnswered => LastResp.confidence = MeanConfidence(provReply.payload)

----------------------------------------------------------------------------
(* Properties of two invocations at once *)

----------------------------------------------------------------------------
(* Properties of the pollers, observed *)

\* the poller has returned the response of a status fetch that reported done
\* without error, and no fetch before it had failed
DoneFirstTry == pc \in {"polled", "done"} /\ pollOutcome.kind = "ok" /\ ~observed.failed

\* C28: when the k-th status fetch is the first to report done without
\* error and none before it failed, the poller has made k fetches and slept
\* the poll interval of 5 s k - 1 times, and returns the payload of that
\* response
C28_DoneAtKthFetch ==
    DoneFirstTry =>
        /\ observed.sleeps = fetches - 1
        /\ sleptSec = 5 * (fetches - 1)
        /\ observed.last = "doneOk" /\ observed.waited = 0
        /\ pollOutcome.payload = donePayload
        /\ pc = "done" => (LastResp.status = 200 /\ LastResp.results = donePayload)

\* the third fetch reported done, after two that reported RUNNING
C28_Witness ==
    /\ DoneFirstTry /\ req.endpoint = "main"
    /\ fetches = 3 /\ sleptSec = 10 /\ pollOutcome.payload = 2

\* C29: after a status fetch that failed transiently, by a network failure
\* or by a 5xx answer of the provider, the wait before the next poll is the
\* back-off of 10 s, and the wait of 5 s follows only a poll that reported
\* RUNNING
C29_BackoffAfterFailure ==
    pc = "poll" =>
        /\ observed.last \in {"netFail", "status5xx"} => observed.waited = 10
        /\ observed.waited = 5 => observed.last = "running"

\* what holds of the waits: 10 s after a fetch or json() that threw, 5 s
\* after every answer that is not done, a 5xx answer among them
WaitsByOutcome ==
    pc = "poll" =>
        /\ observed.last \in {"netFail", "doneErr"} => observed.waited = 10
        /\ observed.last \in {"running", "status5xx"} => observed.waited = 5

\* a request for one chunk, with a numeric chunkIndex, has been answered
ChunkRequestAnswered ==
    /\ pc = "done" /\ req.chunkIndex >= 0
    /\ \/ req.endpoint = "chunk"
       \/ req.endpoint = "main" /\ req.mode = "chunk_processing"

\* C30: every response to a chunk request with numeric chunk index i carries
\* chunkIndex = i, for index 0 as for any other, whatever the outcome:
\* success, validation error, oversize, provider error, configuration error
\* or internal error
C30_ChunkIndexEchoed ==
    ChunkRequestAnswered => LastResp.chunkIndex = req.chunkIndex

\* what holds of process-audio-chunk: the index is echoed except by the
\* internal error response to chunk 0, which carries null
ChunkEndpointIndex ==
    (ChunkRequestAnswered /\ req.endpoint = "chunk") =>
        IF LastResp.error = <<"Internal server error">> /\ req.chunkIndex = 0
        THEN LastResp.chunkIndex = -3
        ELSE LastResp.chunkIndex = req.chunkIndex

\* the chunk of index 0 gets an internal error response from process-audio-chunk
ChunkZeroInternalError ==
    /\ ChunkRequestAnswered /\ req.endpoint = "chunk" /\ req.chunkIndex = 0
    /\ LastResp.error = <<"Internal server error">>

\* C31: every invocation of a handler sends exactly one response on every
\* path: at no moment have two been sent, an invocation that has returned
\* has sent one, and an invocation that has not returned can take its next
\* step
C31_ExactlyOneResponse ==
    /\ Len(resps) <= 1
    /\ pc = "done" => Len(resps) = 1
    /\ pc # "done" => ENABLED Next

\* driveAudioHandler returned after processLongRunningOperation sent the 200
\* response and the delete of cleanupTempFile failed
C31_Witness ==
    /\ req.endpoint = "drive" /\ pc = "done"
    /\ Len(resps) = 1 /\ LastResp.status = 200
    /\ staged \in bucket

\* the Drive-audio handler has submitted its storage URI to the provider
DriveSubmitted ==
    req.endpoint = "drive" /\ Has(calls, "longrunningrecognize")

\* C32: in the Drive-audio path the storage URI submitted to the provider
\* names the bucket and object that the stage step wrote and that the cleanup
\* step is asked to delete, whether GOOGLE_STORAGE_BUCKET is set or the
\* defaults apply
C32_SameObjectThroughout ==
    DriveSubmitted =>
        /\ audio.uri = copyDriveFileToStorageUri(staged)
        /\ audio.uri = cleanupTempFileUri(staged)

\* what holds: the stage step and the cleanup step name the same object, and
\* the submitted URI names it too when GOOGLE_STORAGE_BUCKET is set
StageAndCleanupAgree ==
    DriveSubmitted =>
        /\ copyDriveFileToStorageUri(staged) = cleanupTempFileUri(staged)
        /\ env.storageBucket # "" => audio.uri = copyDriveFileToStorageUri(staged)

\* the elements of a list
Range(list) == { list[k] : k \in DOMAIN list }

\* cleanupHandler got past the parse of the key and has answered
CleanupAnswered ==
    /\ req.endpoint = "cleanup" /\ pc = "done"
    /\ env.cred \notin {"missingKey", "badKey"}

\* C33: for every list of object names given to the cleanup handler a
\* delete is attempted for each name, a failed delete does not stop the
\* deletes that follow, each name is reported in exactly one of the deleted
\* list and the error list, and a name or Drive file id is reported as
\* deleted only if its delete succeeded
C33_CleanupReport ==
    CleanupAnswered =>
        /\ Count(calls, "delete") = Len(req.objectNames)
        /\ \A name \in Range(req.objectNames) :
              (name \in Range(LastResp.report.deletedCloudStorage))
                  # (FailedToDelete(name) \in Range(LastResp.report.errors))
        /\ Range(LastResp.report.deletedCloudStorage) \subseteq cleanup.gone
        /\ Range(LastResp.report.deletedDrive) \subseteq cleanup.gone

\* what holds: every object name is tried, whatever became of the ones
\* before it, and a 200 response reports each in exactly one list, as deleted
\* only if its delete succeeded
ObjectNamesReported ==
    CleanupAnswered =>
        /\ Count(calls, "delete") = Len(req.objectNames)
        /\ LastResp.status = 200 =>
              /\ \A name \in Range(req.objectNames) :
                    (name \in Range(LastResp.report.deletedCloudStorage))
                        # (FailedToDelete(name) \in Range(LastResp.report.errors))
              /\ Range(LastResp.report.deletedCloudStorage) \subseteq cleanup.gone

\* a Drive file id is reported as deleted though the Drive refused the delete
RefusedReportedDeleted ==
    /\ CleanupAnswered /\ LastResp.status = 200
    /\ \E fileId \in Range(LastResp.report.deletedDrive) : fileId \notin cleanup.gone

\* the token fetch before the Drive loop failed: the 500 response reports
\* none of the object names, deleted or not
NamesUnreported ==
    /\ CleanupAnswered /\ LastResp.status = 500
    /\ cleanup.results.deletedCloudStorage # <<>>
    /\ LastResp.report = NoReport

\* a payload with a diarization config has been sent to the provider
DiarizationSent ==
    PayloadSent /\ "diarizationConfig" \in DOMAIN speechRequest

\* C34: every recognition payload emitted with a diarization config has
\* 1 <= minSpeakerCount <= maxSpeakerCount, whatever pair of counts the
\* caller supplied, one or both missing included
C34_SpeakerCountsInOrder ==
    DiarizationSent =>
        /\ 1 <= speechRequest["diarizationConfig"].minSpeakerCount
        /\ speechRequest["diarizationConfig"].minSpeakerCount
              <= speechRequest["diarizationConfig"].maxSpeakerCount

\* what holds of buildSpeechRequest and processLargeFileViaCloudStorage: a
\* missing or zero count is sent as its default, 2 and 6, and a count the
\* caller wrote is sent as written
SpeakerCountsAsBuilt ==
    (DiarizationSent /\ req.endpoint \in {"main", "svc"}
                     /\ req.mode # "chunk_processing") =>
        LET d == req.config.diarizationConfig
            sent == speechRequest["diarizationConfig"]
        IN  /\ sent.minSpeakerCount = (IF d.minSpeakerCount = 0 THEN 2 ELSE d.minSpeakerCount)
            /\ sent.maxSpeakerCount = (IF d.maxSpeakerCount = 0 THEN 6 ELSE d.maxSpeakerCount)

\* the caller wrote a minimum of 7 and no maximum: the payload has 7 and 6
DefaultBelowMinimum ==
    /\ DiarizationSent
    /\ speechRequest["diarizationConfig"].minSpeakerCount = 7
    /\ speechRequest["diarizationConfig"].maxSpeakerCount = 6

\* a payload has been sent to the provider: audio is what it carried
AudioSent == audio # NoAudio

\* the request asks for a storage reference: staged mode of the main
\* handler, process-large-audio and process-drive-audio
StorageModes ==
    \/ req.endpoint = "main" /\ req.mode = "large_file_cloud_storage"
    \/ req.endpoint \in {"large", "drive"}

\* C35: every payload sent to the provider carries one audio reference and
\* it is defined: audio.content in direct and chunk mode, audio.uri in staged
\* mode, also when the staged-mode request supplied raw bytes in place of a
\* URI
C35_OneAudioReference ==
    AudioSent =>
        /\ audio.defined
        /\ audio.field = (IF StorageModes THEN "uri" ELSE "content")

\* what holds: the field is the one of the mode, and the handlers that
\* validate audioData send it defined
AudioFieldOfMode ==
    AudioSent =>
        /\ audio.field = (IF StorageModes THEN "uri" ELSE "content")
        /\ (~StorageModes /\ req.mode # "chunk_processing") => audio.defined

\* a staged-mode request with raw bytes and no URI was sent on with an
\* audio.uri that is undefined
StagedWithoutReference ==
    /\ req.endpoint = "main" /\ req.mode = "large_file_cloud_storage"
    /\ req.lenK > 0 /\ req.audioUri = ""
    /\ Has(calls, "longrunningrecognize")
    /\ audio.field = "uri" /\ ~audio.defined

\* process-large-audio has made its recognition call
LargeRecognitionCalled ==
    /\ req.endpoint = "large"
    /\ Has(calls, "longrunningrecognize") \/ Has(calls, "recognize")

\* seconds of audio the file is estimated at, at 1 MB per minute
EstimatedSeconds == 60 * metadata.sizeMB

\* C36: process-large-audio uses long-running recognition for every staged
\* file estimated at more than 60 seconds and whenever the metadata cannot
\* be read, and the synchronous call only for files estimated at 60 seconds
\* or less
C36_LongRunningOver60s ==
    LargeRecognitionCalled =>
        (Has(calls, "longrunningrecognize")
            <=> (metadata.read = "failed" \/ EstimatedSeconds > 60))

\* what holds: long-running recognition for files of more than 4 MB, which
\* is an estimate of more than 4 minutes, and when the metadata cannot be
\* read
LongRunningOver4MB ==
    LargeRecognitionCalled =>
        (Has(calls, "longrunningrecognize")
            <=> (metadata.read = "failed" \/ metadata.sizeMB > LongRunningOverMB))

\* a file estimated at four minutes went to the synchronous call
FourMinutesSynchronous ==
    /\ LargeRecognitionCalled /\ Has(calls, "recognize")
    /\ metadata.read = "ok" /\ EstimatedSeconds = 240

====
